---- MODULE Spec2Model ----
(***************************************************************************)
(* A model of the korones NES emulator core (src/src): the Nes value, the  *)
(* CPU bus with OAM DMA, the interrupt latch and its handler, the subset   *)
(* of the 6502 instruction engine the checked properties exercise, the     *)
(* scan/VBLANK part of the PPU dot engine, the APU frame/DMC clocking and  *)
(* the scheduler (Nes::step / Nes::step_frame).                            *)
(*                                                                         *)
(* The whole machine is one record held in the variable nes, as the code   *)
(* holds it in one struct; every operation of the code is an operator from *)
(* a Nes record to a Nes record, and the actions apply them.               *)
(*                                                                         *)
(* Not modelled: the PPU background/sprite pipeline latches (so the frame  *)
(* buffers hold the pixels written while background and sprites are off;   *)
(* sprite evaluation is modelled as a function of its own),                *)
(* the APU triangle/noise channels, the pulse sweep units and the mixer.    *)
(* None of them feeds back into the CPU, the interrupt latch or the scan   *)
(* counter.                                                                *)
(***************************************************************************)
EXTENDS Integers, Sequences, FiniteSets, TLC

VARIABLES nes, pc, before, last, shadow

vars == <<nes, pc, before, last, shadow>>

(***************************************************************************)
(* Bit arithmetic on naturals.                                             *)
(***************************************************************************)
RECURSIVE BitAnd(_, _)
BitAnd(a, b) ==
    IF a = 0 \/ b = 0 THEN 0
    ELSE (a % 2) * (b % 2) + 2 * BitAnd(a \div 2, b \div 2)

RECURSIVE BitOr(_, _)
BitOr(a, b) ==
    IF a = 0 THEN b
    ELSE IF b = 0 THEN a
    ELSE (IF a % 2 = 1 \/ b % 2 = 1 THEN 1 ELSE 0) + 2 * BitOr(a \div 2, b \div 2)

\* bitflags: contains / insert / remove on a u8 flag set
contains(bits, flag) == BitAnd(bits, flag) = flag

insert(bits, flag) == BitOr(bits, flag)

remove(bits, flag) == BitAnd(bits, 255 - BitAnd(flag, 255))

\* Byte and Word: wrapping 8-bit and 16-bit unsigned arithmetic
ByteAdd(a, b) == (a + b) % 256

ByteSub(a, b) == (a - b + 256) % 256

WordAdd(a, b) == (a + b) % 65536

\* Byte::nth(i): bit i, 0 or 1; Byte <<= 1: the bits shifted out are lost
nth(b, i) == (b \div (2 ^ i)) % 2

ByteShl(b) == (b * 2) % 256

\* a sparse byte array: absent cells hold 0
Load(mem, a) == IF a \in DOMAIN mem THEN mem[a] ELSE 0

Store(mem, a, v) ==
    IF v = 0
    THEN [x \in (DOMAIN mem) \ {a} |-> mem[x]]
    ELSE [x \in (DOMAIN mem) \cup {a} |-> IF x = a THEN v ELSE mem[x]]

Empty == [x \in {} |-> 0]

(***************************************************************************)
(* Interrupt latch (interrupt.rs) and CPU status flags (cpu.rs).           *)
(***************************************************************************)
RESET == 8
NMI == 4
IRQ == 2
BRK == 1
NO_INTERRUPT == 0

Status_C == 1
Status_V == 64
Status_I == 4
Status_Z == 2
Status_N == 128
Status_B == 16
Status_R == 32
OPERATED_B == 48
INTERRUPTED_B == 32

\* PPU Controller / Status flags (ppu.rs)
Controller_NMI == 128
Controller_VRAM_ADDR_INCR == 4
Mask_RENDER_ENABLED == 24
Status_VBLANK == 128

MAX_DOT == 340
MAX_LINE == 261

\* Interrupt::get, as the else-if chain of the code
Interrupt_get_swapped(latch) ==
    IF contains(latch, RESET) THEN RESET
    ELSE IF contains(latch, IRQ) THEN IRQ
    ELSE IF contains(latch, NMI) THEN NMI
    ELSE IF contains(latch, BRK) THEN BRK
    ELSE NO_INTERRUPT

Interrupt_get(latch) ==
    IF contains(latch, RESET) THEN RESET
    ELSE IF contains(latch, NMI) THEN NMI
    ELSE IF contains(latch, IRQ) THEN IRQ
    ELSE IF contains(latch, BRK) THEN BRK
    ELSE NO_INTERRUPT

\* Cpu::interrupted: the I flag of P
interrupted(cpu) == contains(cpu.p, Status_I)

(***************************************************************************)
(* Mapper 0 (NROM) with a 16 KiB or 32 KiB PRG image.                      *)
(***************************************************************************)
prg_addr(m, addr) ==
    IF m.mirrored THEN addr % 16384 ELSE (addr - 16384 + 65536) % 65536

\* the byte of the PRG image at index i: the image is m.len bytes, m.fill
\* wherever m.prg gives no byte
prg_rom(m, i) == IF i \in DOMAIN m.prg THEN m.prg[i] ELSE m.fill

\* self.rom.prg_rom[self.prg_addr(addr)] panics on an index past the image
Mapper_read_panics(m, addr) ==
    m.kind = "nrom" /\ addr >= 32768 /\ prg_addr(m, addr) >= m.len

Mapper_read(m, addr) ==
    IF m.kind = "default" THEN 0
    ELSE IF addr <= 8191 THEN 0
    ELSE IF addr >= 32768 /\ ~Mapper_read_panics(m, addr)
        THEN prg_rom(m, prg_addr(m, addr))
    ELSE 0

(***************************************************************************)
(* PPU memory map and register file (ppu.rs).                              *)
(***************************************************************************)
to_name_table_addr(base, mirroring) ==
    IF mirroring = "Vertical" THEN base % 2048
    ELSE IF 8192 <= base THEN ((2048 - base + 65536) % 65536) % 1024
    ELSE base % 1024

\* the palette index without the fold of $x0/$x4/$x8/$xC
to_pallete_addr_plain(base) == base % 32

to_pallete_addr(base) ==
    LET addr == base % 32
    IN IF addr % 4 = 0 THEN BitOr(addr, 16) ELSE addr

read_ppu(n, a) ==
    IF a <= 8191 THEN Mapper_read(n.mapper, a)
    ELSE IF a <= 12287 THEN Load(n.name_table, to_name_table_addr(a, n.ppu.mirroring))
    ELSE IF a <= 16127
        THEN Load(n.name_table, to_name_table_addr(a - 4096, n.ppu.mirroring))
    ELSE IF a <= 16383 THEN Load(n.pallete_ram_idx, to_pallete_addr(a))
    ELSE 0

\* a write below $2000 is unimplemented!("mapper")
write_ppu_panics(a) == a <= 8191

\* write_ppu where it does not panic
write_ppu(n, a, value) ==
    IF a >= 8192 /\ a <= 12287
        THEN [n EXCEPT !.name_table =
                 Store(@, to_name_table_addr(a, n.ppu.mirroring), value)]
    ELSE IF a >= 12288 /\ a <= 16127
        THEN [n EXCEPT !.name_table =
                 Store(@, to_name_table_addr(a - 4096, n.ppu.mirroring), value)]
    ELSE IF a >= 16128 /\ a <= 16383
        THEN [n EXCEPT !.pallete_ram_idx = Store(@, to_pallete_addr(a), value)]
    ELSE n

incr_v(p) ==
    [p EXCEPT !.v = WordAdd(@, IF contains(p.ctrl, Controller_VRAM_ADDR_INCR)
                               THEN 32 ELSE 1)]

name_table_select(ctrl) == BitAnd(ctrl, 3)

write_controller(p, value) ==
    LET ctrl == BitAnd(value, 252)    \* from_bits_truncate: bits 2..7 are defined
    IN [p EXCEPT !.ctrl = ctrl,
                 !.t = BitOr(BitAnd(p.t, 65535 - 3072), name_table_select(ctrl) * 1024)]

write_scroll(p, d) ==
    IF ~p.write_toggle
    THEN [p EXCEPT !.t = BitOr(BitAnd(p.t, 65535 - 31), d \div 8),
                   !.fine_x = d % 8,
                   !.write_toggle = TRUE]
    ELSE [p EXCEPT !.t = BitOr(BitOr(BitAnd(p.t, 65535 - 29664), (d % 8) * 4096),
                               (d \div 8) * 32),
                   !.write_toggle = FALSE]

write_vram_address(p, d) ==
    IF ~p.write_toggle
    THEN [p EXCEPT !.t = BitOr(BitAnd(p.t, 65535 - 16128), (d % 64) * 256),
                   !.write_toggle = TRUE]
    ELSE LET t2 == BitOr(BitAnd(p.t, 65535 - 255), d)
         IN [p EXCEPT !.t = t2, !.v = t2, !.write_toggle = FALSE]

\* read_status without the side effects on VBLANK and the write toggle
read_status_keep(n) ==
    [n |-> n,
     s |-> BitOr(n.ppu.status, BitAnd(n.ppu.internal_data_bus, 31))]

\* read_status: the value read ($2002) and the state after it
read_status(n) ==
    [n |-> [n EXCEPT !.ppu.status = remove(@, Status_VBLANK),
                     !.ppu.write_toggle = FALSE],
     s |-> BitOr(n.ppu.status, BitAnd(n.ppu.internal_data_bus, 31))]

\* the race at line 241, dots 0 and 1: bit 7 reads clear
status_race(n, r) ==
    [n |-> r.n,
     v |-> IF n.ppu.scan.line = 241 /\ n.ppu.scan.dot < 2
           THEN BitAnd(r.s, 127) ELSE r.s]

OAM_SIZE == 256

\* self.oam.primary[self.ppu.oam_address] panics on an index past the array
oam_index_panics(n) == n.ppu.oam_address >= OAM_SIZE

\* the $2004 read where it does not panic
read_oam_data(n) ==
    [n |-> n,
     v |-> IF n.ppu.scan.line < 240 /\ 1 <= n.ppu.scan.dot /\ n.ppu.scan.dot <= 64
           THEN 255 ELSE Load(n.oam.primary, n.ppu.oam_address)]

\* $2007: buffered below $3F00, direct for the palette
read_data(n, val) ==
    IF n.ppu.v <= 16127
    THEN [n |-> [n EXCEPT !.ppu = incr_v([@ EXCEPT !.data = val])],
          v |-> n.ppu.data]
    ELSE [n |-> [n EXCEPT !.ppu = incr_v(@)], v |-> val]

latch_data_bus(r) == [n |-> [r.n EXCEPT !.ppu.internal_data_bus = r.v], v |-> r.v]

\* read_ppu_register: the value read and the state after it
read_ppu_register(n, addr) ==
    latch_data_bus(
        IF addr = 8194 THEN status_race(n, read_status(n))
        ELSE IF addr = 8196 THEN read_oam_data(n)
        ELSE IF addr = 8199 THEN read_data(n, read_ppu(n, n.ppu.v))
        ELSE [n |-> n, v |-> 0])

write_ppu_register(n, addr, value) ==
    IF addr = 8192 THEN [n EXCEPT !.ppu = write_controller(@, value)]
    ELSE IF addr = 8193 THEN [n EXCEPT !.ppu.mask = value]
    ELSE IF addr = 8195 THEN [n EXCEPT !.ppu.oam_address = value]
    ELSE IF addr = 8196 THEN
        [n EXCEPT !.oam.primary = Store(@, n.ppu.oam_address, value),
                  !.ppu.oam_address = n.ppu.oam_address + 1]
    ELSE IF addr = 8197 THEN [n EXCEPT !.ppu = write_scroll(@, value)]
    ELSE IF addr = 8198 THEN [n EXCEPT !.ppu = write_vram_address(@, value)]
    ELSE IF addr = 8199 THEN
        [write_ppu(n, n.ppu.v, value) EXCEPT !.ppu = incr_v(@)]
    ELSE n

(***************************************************************************)
(* APU registers and clocking (apu.rs): frame counter control, frame       *)
(* sequencer position, frame IRQ flag and the DMC memory reader.           *)
(***************************************************************************)
frame_interrupt_inhibit(a) == (a.frame_counter_control \div 64) % 2 = 1

\* the length counter values the length-load field of $4003 selects
LENGTH_TABLE ==
    <<10, 254, 20, 2, 40, 4, 80, 6, 160, 8, 60, 10, 14, 12, 26, 14,
      12, 16, 24, 18, 48, 20, 96, 22, 192, 24, 72, 26, 16, 28, 32, 30>>

\* Pulse: registers, length counter, timer and sequencer, envelope (the sweep
\* unit only moves timer_period, which none of these reads)
Pulse_channel_1 ==
    [volume |-> 0, low |-> 0, high |-> 0, length_counter |-> 0, enabled |-> FALSE,
     timer_counter |-> 0, timer_sequencer |-> 0, envelope_counter |-> 0,
     envelope_decay_level_counter |-> 0, envelope_start |-> FALSE,
     carry_mode |-> "OnesComplement"]

Pulse_channel_2 == [Pulse_channel_1 EXCEPT !.carry_mode = "TwosComplement"]

timer_reload(p) == BitOr(p.low, p.high * 256)

envelope_period(p) == BitAnd(p.volume, 15)

length_counter_load(p) == BitAnd(p.high, 248) \div 8

length_counter_halt(p) == nth(p.volume, 5) = 1

\* the $4003 arm of Pulse::write, after self.high = value
length_loaded(p) ==
    IF p.enabled
    THEN [p EXCEPT !.length_counter = LENGTH_TABLE[length_counter_load(p) + 1]]
    ELSE p

\* Pulse::write matches the addresses $4000..$4003 themselves
Pulse_write(p, addr, value) ==
    IF addr = 16384 THEN [p EXCEPT !.volume = value]
    ELSE IF addr = 16386 THEN [p EXCEPT !.low = value]
    ELSE IF addr = 16387
        THEN [length_loaded([p EXCEPT !.high = value])
              EXCEPT !.timer_sequencer = 0, !.envelope_start = TRUE]
    ELSE p

Pulse_clock_timer(p) ==
    IF 0 < p.timer_counter THEN [p EXCEPT !.timer_counter = @ - 1]
    ELSE [p EXCEPT !.timer_counter = timer_reload(p),
                   !.timer_sequencer = IF @ + 1 = 8 THEN 0 ELSE @ + 1]

clock_envelope(p) ==
    IF p.envelope_start
    THEN [p EXCEPT !.envelope_decay_level_counter = 15,
                   !.envelope_counter = envelope_period(p),
                   !.envelope_start = FALSE]
    ELSE IF 0 < p.envelope_counter THEN [p EXCEPT !.envelope_counter = @ - 1]
    ELSE [p EXCEPT !.envelope_counter = envelope_period(p),
                   !.envelope_decay_level_counter = IF 0 < @ THEN @ - 1 ELSE 15]

Pulse_set_enabled(p, v) ==
    IF v THEN [p EXCEPT !.enabled = TRUE]
    ELSE [p EXCEPT !.enabled = FALSE, !.length_counter = 0]

\* Pulse::clock_length_counter: self.length_counter.wrapping_add(1); the
\* counter is a u32 loaded with at most 254, so the wrap is out of reach
clock_length_counter(p) ==
    IF 0 < p.length_counter /\ ~length_counter_halt(p)
    THEN [p EXCEPT !.length_counter = @ + 1]
    ELSE p

\* Apu::read_status; triangle and noise are never enabled by the writes of
\* this model, so their length counters stay 0 and bits 2 and 3 clear
Apu_read_status(a) ==
    [a |-> [a EXCEPT !.frame_interrupted = FALSE],
     v |-> (IF a.dmc.interrupted THEN 128 ELSE 0)
           + (IF a.frame_interrupted /\ ~frame_interrupt_inhibit(a) THEN 64 ELSE 0)
           + (IF 0 < a.dmc.bytes_remaining_counter THEN 32 ELSE 0)
           + (IF 0 < a.pulse2.length_counter THEN 2 ELSE 0)
           + (IF 0 < a.pulse1.length_counter THEN 1 ELSE 0)]

Apu_write(a, addr, value) ==
    IF addr <= 16387 THEN [a EXCEPT !.pulse1 = Pulse_write(@, addr, value)]
    ELSE IF addr <= 16391 THEN [a EXCEPT !.pulse2 = Pulse_write(@, addr, value)]
    ELSE IF addr = 16400 THEN [a EXCEPT !.dmc.flags = value]
    ELSE IF addr = 16402 THEN [a EXCEPT !.dmc.address = value]
    ELSE IF addr = 16403 THEN [a EXCEPT !.dmc.length = value]
    ELSE IF addr = 16405
        THEN [a EXCEPT !.pulse1 = Pulse_set_enabled(@, nth(value, 0) = 1),
                       !.pulse2 = Pulse_set_enabled(@, nth(value, 1) = 1),
                       !.dmc.enabled = (value \div 16) % 2 = 1]
    ELSE IF addr = 16407 THEN [a EXCEPT !.frame_counter_control = value]
    ELSE a

(***************************************************************************)
(* Controllers (controller.rs): the Empty controller a new Nes holds and   *)
(* the StandardController.                                                 *)
(***************************************************************************)
Button_A == 1

Controller_Empty == [kind |-> "empty", state |-> 0, current |-> 0, strobe |-> FALSE]

StandardController ==
    [kind |-> "standard", state |-> 0, current |-> 0, strobe |-> FALSE]

Controller_write(c, value) ==
    IF c.kind = "empty" THEN c
    ELSE [c EXCEPT !.strobe = (nth(value, 0) = 1), !.current = 1]

\* the strobe arm of read: 0x40u8 & self.state.nth(Button::A.bits())
strobe_read(c) == BitAnd(64, nth(c.state, Button_A))

\* Controller::read: the controller after it and the value read
Controller_read(c) ==
    IF c.kind = "empty" THEN [c |-> c, v |-> 0]
    ELSE IF c.strobe THEN [c |-> c, v |-> strobe_read(c)]
    ELSE [c |-> [c EXCEPT !.current = ByteShl(@)],
          v |-> BitOr(64, IF 0 < BitAnd(c.state, c.current) THEN 1 ELSE 0)]

Controller_update(c, state) ==
    IF c.kind = "empty" THEN c ELSE [c EXCEPT !.state = state]

(***************************************************************************)
(* The CPU-visible bus (nes.rs) and the ticking bus (cpu.rs).              *)
(***************************************************************************)
to_ppu_addr(addr) == ((8192 + addr) % 65536) % 8

apu_status_read(n, r) == [n |-> [n EXCEPT !.apu = r.a], v |-> r.v]

controller_1_read(n, r) == [n |-> [n EXCEPT !.controller_1 = r.c], v |-> r.v]

controller_2_read(n, r) == [n |-> [n EXCEPT !.controller_2 = r.c], v |-> r.v]

read_bus(n, a) ==
    IF a <= 8191 THEN [n |-> n, v |-> Load(n.wram, a)]
    ELSE IF a <= 16383 THEN read_ppu_register(n, to_ppu_addr(a))
    ELSE IF a <= 16403 \/ a = 16405 THEN apu_status_read(n, Apu_read_status(n.apu))
    ELSE IF a = 16406 THEN controller_1_read(n, Controller_read(n.controller_1))
    ELSE IF a = 16407 THEN controller_2_read(n, Controller_read(n.controller_2))
    ELSE IF a >= 16416 THEN [n |-> n, v |-> Mapper_read(n.mapper, a)]
    ELSE [n |-> n, v |-> 0]

write_bus(n, a, v) ==
    IF a <= 8191 THEN [n EXCEPT !.wram = Store(@, a, v)]
    ELSE IF a <= 16383 THEN write_ppu_register(n, to_ppu_addr(a), v)
    ELSE IF a <= 16403 \/ a = 16405
        THEN [n EXCEPT !.apu = Apu_write(@, a, v)]
    ELSE IF a = 16406 THEN [n EXCEPT !.controller_1 = Controller_write(@, v)]
    ELSE IF a = 16407
        THEN [n EXCEPT !.controller_2 = Controller_write(@, v),
                       !.apu = Apu_write(@, a, v)]
    ELSE n

tick(n, k) == [n EXCEPT !.cpu.cycles = @ + k]

\* Bus::read for Nes
Bus_read(n, addr) == read_bus(tick(n, 1), addr)

\* one iteration of the OAM DMA loop, after its read: tick, write to $2004, tick
dma_transfer(r) == tick(write_bus(tick(r.n, 1), 8196, r.v), 1)

\* the OAM DMA loop of Bus::write: for a in start..(start + 0xFF); the range
\* is run as its lower half followed by its upper half
RECURSIVE dma_copy(_, _, _)
dma_copy(n, a, end) ==
    IF a >= end THEN n
    ELSE IF a + 1 = end THEN dma_transfer(read_bus(n, a))
    ELSE CHOOSE r \in {dma_copy(m, a + (end - a) \div 2, end) :
                         m \in {dma_copy(n, a, a + (end - a) \div 2)}} : TRUE

OAMDMA_LEN == 255

\* after the loop: a dummy cycle, and one more on an odd cycle count
dma_dummy(n) == IF (n.cpu.cycles + 1) % 2 = 1 THEN tick(n, 2) ELSE tick(n, 1)

\* Bus::write for Nes
Bus_write(n, addr, value) ==
    IF addr = 16404
    THEN dma_dummy(dma_copy(n, value * 256, value * 256 + OAMDMA_LEN))
    ELSE write_bus(tick(n, 1), addr, value)

word_of(lo, hi) == [n |-> hi.n, v |-> lo + 256 * hi.v]

read_word_hi(lo, addr) == word_of(lo.v, Bus_read(lo.n, addr))

read_word(n, addr) == read_word_hi(Bus_read(n, addr), WordAdd(addr, 1))

(***************************************************************************)
(* Stack (cpu.rs).                                                         *)
(***************************************************************************)
push_stack_fixed(n, value) ==
    Bus_write(n, 256 + n.cpu.s, value)

push_stack(n, value) ==
    [Bus_write(n, 256 + n.cpu.s, value) EXCEPT !.cpu.s = ByteSub(@, 1)]

push_stack_word(n, word) ==
    push_stack(push_stack(n, word \div 256), word % 256)

\* self.s += 1, then the read at $0100 + S
incr_s(n) == [n EXCEPT !.cpu.s = ByteAdd(@, 1)]

read_at_s(n) == Bus_read(n, 256 + n.cpu.s)

pull_stack(n) == read_at_s(incr_s(n))

pull_word_hi(l, h) == [n |-> h.n, v |-> h.v * 256 + l]

pull_word_lo(l) == pull_word_hi(l.v, pull_stack(l.n))

pull_stack_word(n) == pull_word_lo(pull_stack(n))

set_zn(p, v) ==
    IF (v \div 128) % 2 = 1
    THEN insert(IF v = 0 THEN insert(p, Status_Z) ELSE remove(p, Status_Z), Status_N)
    ELSE remove(IF v = 0 THEN insert(p, Status_Z) ELSE remove(p, Status_Z), Status_N)

(***************************************************************************)
(* Interrupt sequences (cpu.rs, mod interrupt) and handle_interrupt.       *)
(***************************************************************************)
\* the tail of reset: PC from the word read, I set, S lowered by 3
reset_novector(w) ==
    [w.n EXCEPT !.cpu.p = insert(@, Status_I),
                !.cpu.s = ByteSub(@, 3)]

reset_load(w) ==
    [w.n EXCEPT !.cpu.pc = w.v,
                !.cpu.p = insert(@, Status_I),
                !.cpu.s = ByteSub(@, 3)]

reset(n) == reset_load(read_word(tick(n, 5), 65532))

push_pc(n) == push_stack_word(n, n.cpu.pc)

\* the status byte goes to the stack with the "interrupted" B pattern
push_status(n) == push_stack(n, BitOr(n.cpu.p, INTERRUPTED_B))

set_i(n) == [n EXCEPT !.cpu.p = insert(@, Status_I)]

load_pc(w) == [w.n EXCEPT !.cpu.pc = w.v]

\* the body NMI and IRQ share, with the vector as parameter
interrupt_sequence(n, vector) ==
    load_pc(read_word(set_i(push_status(push_pc(tick(n, 2)))), vector))

non_markable_interrupt(n) == interrupt_sequence(n, 65530)

interrupt_request(n) == interrupt_sequence(n, 65534)

break_interrupt(n) ==
    interrupt_sequence([n EXCEPT !.cpu.pc = WordAdd(@, 1)], 65534)

\* a service that empties the latch
serviced_all(n, current) == [n EXCEPT !.interrupt = NO_INTERRUPT]

\* nes.interrupt.remove(current)
serviced(n, current) == [n EXCEPT !.interrupt = remove(@, current)]

\* the match of handle_interrupt on the interrupt Interrupt::get returned
service(n, current) ==
    IF current = RESET THEN serviced(reset(n), current)
    ELSE IF current = NMI THEN serviced(non_markable_interrupt(n), current)
    ELSE IF current = IRQ
         THEN (IF interrupted(n.cpu) THEN serviced(interrupt_request(n), current)
               ELSE n)
    ELSE IF current = BRK
         THEN (IF interrupted(n.cpu) THEN serviced(break_interrupt(n), current)
               ELSE n)
    ELSE n

\* the state after, with the CPU cycles counted since start
counted(n, start) == [n |-> n, cycles |-> n.cpu.cycles - start]

handle_interrupt(n) ==
    counted(service(n, Interrupt_get(n.interrupt)), n.cpu.cycles)

(***************************************************************************)
(* cpu::step for the opcodes below: fetch, operand by addressing mode,     *)
(* execute.  Every other opcode is outside the programs of this model.     *)
(***************************************************************************)
OP_BRK == 0
OP_PHP == 8
OP_BPL == 16
OP_BMI == 48
OP_BVC == 80
OP_ADC_IMM == 105
OP_JMP_IND == 108
OP_BVS == 112
OP_BCC == 144
OP_BCS == 176
OP_BNE == 208
OP_BEQ == 240
OP_PLP == 40
OP_PHA == 72
OP_CLI == 88
OP_PLA == 104
OP_SEI == 120
OP_STA_ABS == 141
OP_LDA_IMM == 169
OP_SBC_IMM == 233
OP_NOP == 234

BranchOpcodes ==
    {OP_BPL, OP_BMI, OP_BVC, OP_BVS, OP_BCC, OP_BCS, OP_BNE, OP_BEQ}

Opcodes ==
    {OP_BRK, OP_PHP, OP_PLP, OP_PHA, OP_CLI, OP_PLA, OP_SEI, OP_STA_ABS,
     OP_LDA_IMM, OP_NOP, OP_JMP_IND, OP_ADC_IMM, OP_SBC_IMM} \cup BranchOpcodes

\* the opcode the next cpu::step will fetch (a read without side effects is
\* enough to look: programs live in work RAM or PRG ROM)
opcode_at_pc(n) == read_bus(n, n.cpu.pc).v

\* the BRK instruction: PC and P pushed, one idle cycle, PC from $FFFE
brk(n) == load_pc(read_word(tick(push_status(push_pc(n)), 1), 65534))

lda(r) == [r.n EXCEPT !.cpu.a = r.v, !.cpu.p = set_zn(@, r.v)]

sta(w) == Bus_write([w.n EXCEPT !.cpu.pc = WordAdd(@, 2)], w.v, w.n.cpu.a)

pla(r) == tick([r.n EXCEPT !.cpu.a = r.v, !.cpu.p = set_zn(@, r.v)], 2)

plp(r) == tick([r.n EXCEPT !.cpu.p = BitOr(remove(r.v, Status_B), Status_R)], 2)

\* Status::set(flag, value)
status_set(p, flag, value) == IF value THEN insert(p, flag) ELSE remove(p, flag)

\* a + val, plus one when C is set, in Byte
add_result(a, val, p) ==
    ByteAdd(ByteAdd(a, val), IF contains(p, Status_C) THEN 1 ELSE 0)

\* c6 = a7 ^ v7 ^ result7: the carry into bit 7
carry_6(a, val, result) == (nth(a, 7) + nth(val, 7) + nth(result, 7)) % 2

\* a carry out of bit 7 that forgets the carry into it
carry_7_half(a7, v7, c6) == BitAnd(a7, v7)

\* c7 = (a7 & v7) | (a7 & c6) | (v7 & c6): the carry out of bit 7
carry_7(a7, v7, c6) == BitOr(BitOr(BitAnd(a7, v7), BitAnd(a7, c6)), BitAnd(v7, c6))

\* C from c7, V from c6 ^ c7
add_flags(p, c6, c7) ==
    status_set(status_set(p, Status_C, c7 = 1), Status_V, (c6 + c7) % 2 = 1)

\* the common body of adc and sbc once val and result are known
add_with_carry(n, a, val, result) ==
    [n EXCEPT !.cpu.a = result,
              !.cpu.p = set_zn(add_flags(@, carry_6(a, val, result),
                                         carry_7(nth(a, 7), nth(val, 7),
                                                 carry_6(a, val, result))),
                               result)]

adc(r) == add_with_carry(r.n, r.n.cpu.a, r.v, add_result(r.n.cpu.a, r.v, r.n.cpu.p))

\* val = !self.read(operand)
sbc(r) ==
    add_with_carry(r.n, r.n.cpu.a, 255 - r.v,
                   add_result(r.n.cpu.a, 255 - r.v, r.n.cpu.p))

\* the operand byte as i8, and that i8 as u16
as_i8(v) == IF v >= 128 THEN v - 256 ELSE v

as_u16(v) == IF v >= 128 THEN v + 65280 ELSE v

\* a page test that never reports a crossing
page_crossed_never(a, b) == FALSE

\* page_crossed(value, from), in i64: bits 8..15 of from + value against
\* those of from
page_crossed(a, b) == ((b + a + 65536) % 65536) \div 256 # b \div 256

\* Nes::branch: one cycle, one more when the page changes, PC += offset
branch(n, operand) ==
    [tick(n, IF page_crossed(as_i8(operand), n.cpu.pc) THEN 2 ELSE 1)
        EXCEPT !.cpu.pc = WordAdd(@, as_u16(operand))]

\* the condition of bpl, bmi, bvc, bvs, bcc, bcs, bne, beq
branch_taken(p, opcode) ==
    IF opcode = OP_BPL THEN ~contains(p, Status_N)
    ELSE IF opcode = OP_BMI THEN contains(p, Status_N)
    ELSE IF opcode = OP_BVC THEN ~contains(p, Status_V)
    ELSE IF opcode = OP_BVS THEN contains(p, Status_V)
    ELSE IF opcode = OP_BCC THEN ~contains(p, Status_C)
    ELSE IF opcode = OP_BCS THEN contains(p, Status_C)
    ELSE IF opcode = OP_BNE THEN ~contains(p, Status_Z)
    ELSE contains(p, Status_Z)

\* AddressingMode::Relative, then the branch instruction
relative(r, opcode) ==
    IF branch_taken(r.n.cpu.p, opcode) THEN branch(r.n, r.v) ELSE r.n

\* an indirect read that carries into the high byte of the pointer
read_on_indirect_carry(n, addr) == read_word(n, addr)

\* ReadOnIndirect::read_on_indirect: the high byte comes from the page of addr
read_on_indirect(n, addr) ==
    read_word_hi(Bus_read(n, addr),
                 BitOr(BitAnd(addr, 65280), BitAnd(WordAdd(addr, 1), 255)))

\* AddressingMode::Indirect, then jmp
jmp_indirect(data) == load_pc(read_on_indirect(data.n, data.v))

execute(n, opcode) ==
    IF opcode = OP_LDA_IMM
        THEN lda(Bus_read([n EXCEPT !.cpu.pc = WordAdd(@, 1)], n.cpu.pc))
    ELSE IF opcode = OP_ADC_IMM
        THEN adc(Bus_read([n EXCEPT !.cpu.pc = WordAdd(@, 1)], n.cpu.pc))
    ELSE IF opcode = OP_SBC_IMM
        THEN sbc(Bus_read([n EXCEPT !.cpu.pc = WordAdd(@, 1)], n.cpu.pc))
    ELSE IF opcode = OP_STA_ABS THEN sta(read_word(n, n.cpu.pc))
    ELSE IF opcode = OP_PHA THEN tick(push_stack(n, n.cpu.a), 1)
    ELSE IF opcode = OP_PHP THEN tick(push_stack(n, BitOr(n.cpu.p, OPERATED_B)), 1)
    ELSE IF opcode = OP_PLA THEN pla(pull_stack(n))
    ELSE IF opcode = OP_PLP THEN plp(pull_stack(n))
    ELSE IF opcode = OP_CLI THEN tick([n EXCEPT !.cpu.p = remove(@, Status_I)], 1)
    ELSE IF opcode = OP_SEI THEN tick([n EXCEPT !.cpu.p = insert(@, Status_I)], 1)
    ELSE IF opcode = OP_BRK THEN brk(n)
    ELSE IF opcode \in BranchOpcodes
        THEN relative(Bus_read([n EXCEPT !.cpu.pc = WordAdd(@, 1)], n.cpu.pc), opcode)
    ELSE IF opcode = OP_JMP_IND THEN jmp_indirect(read_word(n, n.cpu.pc))
    ELSE tick(n, 1)

\* after the fetch: PC past the opcode, then decode and execute
fetched(f) == execute([f.n EXCEPT !.cpu.pc = WordAdd(@, 1)], f.v)

cpu_step(n) == counted(fetched(Bus_read(n, n.cpu.pc)), n.cpu.cycles)

(***************************************************************************)
(* apu::step: DMC memory reader and frame sequencer.                       *)
(***************************************************************************)
dmc_stall_cond(d) == d.sample_buffer_empty /\ d.bytes_remaining_counter # 0

\* the memory reader fills the sample buffer: a stolen CPU read, the address
\* and length counters move on
dmc_fetched(r, d) ==
    [r.n EXCEPT
       !.apu.dmc.timer_counter = 8,
       !.apu.dmc.sample_buffer = r.v,
       !.apu.dmc.address_counter =
           IF WordAdd(d.address_counter, 1) = 0 THEN 32768
           ELSE WordAdd(d.address_counter, 1),
       !.apu.dmc.bytes_remaining_counter = ByteSub(d.bytes_remaining_counter, 1),
       !.apu.dmc.interrupted =
           IF ByteSub(d.bytes_remaining_counter, 1) = 0 /\ (d.flags \div 128) % 2 = 1
           THEN TRUE ELSE @]

dmc_timer(n, d) ==
    IF 0 < d.timer_counter
    THEN [n |-> [n EXCEPT !.apu.dmc.timer_counter = @ - 1], stall |-> FALSE]
    ELSE IF dmc_stall_cond(d)
    THEN [n |-> dmc_fetched(Bus_read(n, d.address_counter), d), stall |-> TRUE]
    ELSE [n |-> [n EXCEPT !.apu.dmc.timer_counter = 8], stall |-> FALSE]

\* output unit: a full sample buffer is moved to the shift register
dmc_output(d) ==
    [(IF d.sample_buffer_empty THEN d
      ELSE [d EXCEPT !.sample_buffer_empty = TRUE, !.sample_buffer = 0])
     EXCEPT !.bits_remaining_counter = ByteSub(@, 1)]

dmc_shift(c) == [n |-> [c.n EXCEPT !.apu.dmc = dmc_output(@)], stall |-> c.stall]

dmc_clock_timer(n) == dmc_shift(dmc_timer(n, n.apu.dmc))

\* the calls the frame sequencer makes on every four-step clock; clocks
\* counts the calls made to each unit's clock function
clock_envelopes(a) ==
    [a EXCEPT !.pulse1 = clock_envelope(@),
              !.pulse2 = clock_envelope(@),
              !.clocks.pulse1_envelope = @ + 1,
              !.clocks.pulse2_envelope = @ + 1,
              !.clocks.triangle_linear = @ + 1,
              !.clocks.noise_envelope = @ + 1]

\* the calls under "if let 1 | 3" (four step) and "step == 1 || step == 4"
clock_lengths(a) ==
    [a EXCEPT !.pulse1 = clock_length_counter(@),
              !.pulse2 = clock_length_counter(@),
              !.clocks.pulse1_length = @ + 1,
              !.clocks.pulse1_sweep = @ + 1,
              !.clocks.pulse2_length = @ + 1,
              !.clocks.pulse2_sweep = @ + 1,
              !.clocks.triangle_length = @ + 1,
              !.clocks.noise_length = @ + 1]

\* the first block of the five-step branch
five_step_first(a) ==
    [a EXCEPT !.pulse1 = clock_length_counter(@),
              !.pulse2 = clock_length_counter(@),
              !.clocks.pulse1_length = @ + 1,
              !.clocks.pulse2_length = @ + 1,
              !.clocks.triangle_linear = @ + 1,
              !.clocks.noise_envelope = @ + 1]

\* the end of the four-step branch: frame IRQ on step 3, then the next step
four_step_next(a) ==
    [a EXCEPT !.frame_interrupted =
                IF a.frame_sequence_step = 3 /\ ~frame_interrupt_inhibit(a)
                THEN TRUE ELSE @,
              !.frame_sequence_step = (@ + 1) % 4]

five_step_next(a, s) ==
    [(IF s = 1 \/ s = 4 THEN clock_lengths(a) ELSE a)
     EXCEPT !.frame_sequence_step = (@ + 1) % 5]

frame_step_every(a) ==
    IF nth(a.frame_counter_control, 7) = 0
    THEN four_step_next(clock_lengths(clock_envelopes(a)))
    ELSE five_step_next(
             IF a.frame_sequence_step < 4 \/ a.frame_sequence_step = 5
             THEN five_step_first(a) ELSE a,
             a.frame_sequence_step)

frame_step(a) ==
    IF nth(a.frame_counter_control, 7) = 0
    THEN four_step_next(
             IF a.frame_sequence_step \in {1, 3}
             THEN clock_lengths(clock_envelopes(a)) ELSE clock_envelopes(a))
    ELSE five_step_next(
             IF a.frame_sequence_step < 4 \/ a.frame_sequence_step = 5
             THEN five_step_first(a) ELSE a,
             a.frame_sequence_step)

dmc_irq(a) == IF a.dmc.interrupted THEN [a EXCEPT !.frame_interrupted = TRUE] ELSE a

frame_sequencer(a) == dmc_irq(frame_step(a))

pulse_timers(n) ==
    [n EXCEPT !.apu.pulse1 = Pulse_clock_timer(@),
              !.apu.pulse2 = Pulse_clock_timer(@)]

\* every other APU cycle clocks the pulse timers and the DMC timer
apu_timers(n) ==
    IF n.apu.cycles % 2 = 0 THEN dmc_clock_timer(pulse_timers(n))
    ELSE [n |-> n, stall |-> FALSE]

\* every frame_period cycles clocks the frame sequencer; a stall steals 4 cycles
apu_frame(c) ==
    [n |-> IF c.n.apu.cycles % c.n.apu.frame_period = 0
           THEN [c.n EXCEPT !.apu = frame_sequencer(@)] ELSE c.n,
     steal |-> IF c.stall THEN 4 ELSE 0]

\* apu::step: the state after it and the CPU cycles it steals
apu_step(n) == apu_frame(apu_timers([n EXCEPT !.apu.cycles = @ + 1]))

(***************************************************************************)
(* ppu::step: the scan counter, the odd-frame skip, VBLANK and NMI.        *)
(***************************************************************************)
\* Scan::next: the position after, and whether a frame ended (scan.skip() has
\* already moved the dot on the skipped pre-render dot)
Scan_next(dot, line) ==
    IF MAX_DOT <= dot + 1
    THEN (IF MAX_LINE < line + 1
          THEN [dot |-> (dot + 1) % MAX_DOT, line |-> 0, wrapped |-> TRUE]
          ELSE [dot |-> (dot + 1) % MAX_DOT, line |-> line + 1, wrapped |-> FALSE])
    ELSE [dot |-> dot + 1, line |-> line, wrapped |-> FALSE]

\* the odd-frame skip on the pre-render line
skip(p) ==
    IF p.scan.line = 261 /\ contains(p.mask, Mask_RENDER_ENABLED) /\ p.frames % 2 = 0
    THEN p.scan.dot + 1 ELSE p.scan.dot

\* line 241 dot 1: VBLANK is set, NMI is latched if enabled, buffers swap
vblank(n) ==
    IF n.ppu.scan.line = 241 /\ n.ppu.scan.dot = 1
    THEN [n EXCEPT
            !.ppu.status = insert(@, Status_VBLANK),
            !.interrupt = IF contains(n.ppu.ctrl, Controller_NMI)
                          THEN insert(@, NMI) ELSE @,
            !.buffer_index = (@ + 1) % 2]
    ELSE n

advance(n, nx) ==
    [n EXCEPT !.ppu.scan = [dot |-> nx.dot, line |-> nx.line],
              !.ppu.frames = IF nx.wrapped THEN @ + 1 ELSE @]

WIDTH == 256

Mask_SPRITE == 16

Mask_BG == 8

\* Nes::current_buffer and Nes::write_buffer: the front buffer is
\* buffers[buffer_index], pixels go to the other one
current_buffer(n) == n.buffers[n.buffer_index + 1]

write_buffer(n, x, y, color) ==
    [n EXCEPT !.buffers[((n.buffer_index + 1) % 2) + 1] = Store(@, y * WIDTH + x, color)]

\* the pixel of a visible line: with background and sprites off both pixel
\* addresses are 0 and the colour is read at $3F00 (with either on it comes
\* from the shift registers and sprites)
render_pixel(n) ==
    IF /\ n.ppu.scan.line <= 239
       /\ ~contains(n.ppu.mask, Mask_BG) /\ ~contains(n.ppu.mask, Mask_SPRITE)
    THEN write_buffer(n, n.ppu.scan.dot, n.ppu.scan.line, read_ppu(n, 16128))
    ELSE n

\* VramAddr::coarse_x_scroll: self.0 & 0b11111
coarse_x_scroll(v) == BitAnd(v, 31)

\* VramAddr::coarse_y_scroll: self.0 & 0b11_11100000 >> 5, where >> binds
\* tighter than &
coarse_y_scroll(v) == BitAnd(v, 992 \div 32)

\* v ^= bit, for a single bit
toggle(v, bit) == IF (v \div bit) % 2 = 1 THEN v - bit ELSE v + bit

\* the pre-render line and the visible lines
rendering_line(line) == line = 261 \/ line <= 239

\* the row after y, with v switched to the other vertical nametable after 29
incr_y_row(v, y) ==
    IF y = 29 THEN BitAnd(toggle(v, 2048), 65535 - 992)
    ELSE IF y = 31 THEN BitAnd(v, 65535 - 992)
    ELSE BitOr(BitAnd(v, 65535 - 992), ((y + 1) * 32) % 65536)

\* dot 256: the test is (v & 0x7000) != 7; v += 0x1000 is made on the local
\* copy of v and only the other branch stores into nes.ppu.v
incr_y(v) ==
    IF BitAnd(v, 28672) # 7 THEN v
    ELSE incr_y_row(BitAnd(v, 65535 - 28672), coarse_y_scroll(BitAnd(v, 65535 - 28672)))

\* dot 257, and dots 280..304 of line 261: bits of t into v
copy_bits(v, t, mask) == BitOr(BitAnd(v, 65535 - mask), BitAnd(t, mask))

incr_x(v) ==
    IF coarse_x_scroll(v) = 31 THEN toggle(BitAnd(v, 65535 - 31), 1024)
    ELSE WordAdd(v, 1)

\* the match of the scroll section on (dot, line), in the order of its arms:
\* the arm of dots 9..256 (bg_reload_shift) comes before the two arms
\* guarded by dot % 8
scroll_v(p, dot, line) ==
    IF ~rendering_line(line) THEN p.v
    ELSE IF dot = 256 THEN incr_y(p.v)
    ELSE IF dot = 257 THEN copy_bits(p.v, p.t, 1055)
    ELSE IF dot >= 280 /\ dot <= 304 /\ line = 261 THEN copy_bits(p.v, p.t, 31712)
    ELSE IF dot >= 9 /\ dot <= 256 THEN p.v
    ELSE IF ((dot >= 1 /\ dot <= 256) \/ (dot >= 322 /\ dot <= 336)) /\ dot % 8 = 7
        THEN incr_x(p.v)
    ELSE p.v

\* the scroll section of ppu::step
scroll(n) ==
    IF contains(n.ppu.mask, Mask_RENDER_ENABLED)
    THEN [n EXCEPT !.ppu.v = scroll_v(n.ppu, n.ppu.scan.dot, n.ppu.scan.line)]
    ELSE n

ppu_step(n) ==
    advance(vblank(render_pixel(scroll(n))), Scan_next(skip(n.ppu), n.ppu.scan.line))

\* while 0 < ppu_cycles { ppu::step(self); ppu_cycles -= 1 }: k steps, run
\* as k \div 2 steps followed by the rest
RECURSIVE ppu_run(_, _)
ppu_run(n, k) ==
    IF k = 0 THEN n
    ELSE IF k = 1 THEN ppu_step(n)
    ELSE CHOOSE r \in {ppu_run(m, k - k \div 2) : m \in {ppu_run(n, k \div 2)}} : TRUE

(***************************************************************************)
(* The scheduler (nes.rs).                                                 *)
(***************************************************************************)
\* for _ in 0..cycles { cycles += apu::step(self) }: the range is fixed on entry
\* k iterations, run as k \div 2 iterations followed by the rest
RECURSIVE apu_run(_, _, _)
apu_stepped(r, cycles) == [n |-> r.n, cycles |-> cycles + r.steal]

apu_run(n, k, cycles) ==
    IF k = 0 THEN [n |-> n, cycles |-> cycles]
    ELSE IF k = 1 THEN apu_stepped(apu_step(n), cycles)
    ELSE CHOOSE r \in {apu_run(h.n, k - k \div 2, h.cycles) :
                         h \in {apu_run(n, k \div 2, cycles)}} : TRUE

ppu_cycles_half(cycles) == cycles * 2

ppu_cycles(cycles) == cycles * 3

\* which branch Nes::step takes
runs_handler(n) == interrupted(n.cpu)

cpu_part(n) == IF runs_handler(n) THEN handle_interrupt(n) ELSE cpu_step(n)

apu_part(c) == apu_run(c.n, c.cycles, c.cycles)

ppu_part(a, dots, h) ==
    [n |-> ppu_run(a.n, dots), handler |-> h, cycles |-> a.cycles, dots |-> dots]

ppu_dots(a, h) == ppu_part(a, ppu_cycles(a.cycles), h)

\* Nes::step, with what it did: handler or instruction, CPU cycles counted,
\* PPU dots stepped
Nes_step_report(n) == ppu_dots(apu_part(cpu_part(n)), runs_handler(n))

Nes_step(n) == Nes_step_report(n).n

(***************************************************************************)
(* Construction: Nes::new, Nes::set_rom, Nes::power_on, Nes::clear and     *)
(* Emulator::load_rom.                                                     *)
(***************************************************************************)
Ppu_default ==
    [ctrl |-> 0, mask |-> 0, status |-> 0, oam_address |-> 0, fine_x |-> 0,
     v |-> 0, t |-> 0, data |-> 0, write_toggle |-> FALSE,
     internal_data_bus |-> 0, mirroring |-> "Vertical",
     scan |-> [dot |-> 0, line |-> 0], frames |-> 0,
     sprite_zero_on_line |-> FALSE]

DMC_new ==
    [flags |-> 0, address |-> 0, length |-> 0, timer_counter |-> 0,
     bits_remaining_counter |-> 0, enabled |-> FALSE, sample_buffer |-> 0,
     address_counter |-> 0, bytes_remaining_counter |-> 0,
     sample_buffer_empty |-> FALSE, interrupted |-> FALSE]

\* no clock function has been called yet
Clocks_none ==
    [pulse1_envelope |-> 0, pulse2_envelope |-> 0, triangle_linear |-> 0,
     noise_envelope |-> 0, pulse1_length |-> 0, pulse1_sweep |-> 0,
     pulse2_length |-> 0, pulse2_sweep |-> 0, triangle_length |-> 0,
     noise_length |-> 0]

Apu_new(sampling_rate, frame_period) ==
    [sampling_rate |-> sampling_rate, frame_period |-> frame_period,
     cycles |-> 0, frame_counter_control |-> 0, frame_sequence_step |-> 0,
     frame_interrupted |-> FALSE, pulse1 |-> Pulse_channel_1,
     pulse2 |-> Pulse_channel_2,
     clocks |-> Clocks_none, dmc |-> DMC_new]

MapperDefault ==
    [kind |-> "default", mirrored |-> TRUE, prg |-> Empty, fill |-> 0, len |-> 0,
     mirroring |-> "Vertical"]

Nes_new(sampling_rate, frame_period) ==
    [cpu |-> [a |-> 0, x |-> 0, y |-> 0, s |-> 0, p |-> 0, pc |-> 0, cycles |-> 0],
     wram |-> Empty,
     interrupt |-> NO_INTERRUPT,
     ppu |-> Ppu_default,
     oam |-> [primary |-> Empty, secondary |-> Empty],
     name_table |-> Empty,
     pallete_ram_idx |-> Empty,
     apu |-> Apu_new(sampling_rate, frame_period),
     mapper |-> MapperDefault,
     controller_1 |-> Controller_Empty,
     controller_2 |-> Controller_Empty,
     buffers |-> <<Empty, Empty>>,
     buffer_index |-> 0]

set_rom(n, rom) ==
    [n EXCEPT !.mapper = rom, !.ppu.mirroring = rom.mirroring]

RECURSIVE write_zeros(_, _, _)
write_zeros(n, a, end) ==
    IF a > end THEN n ELSE write_zeros(Bus_write(n, a, 0), a + 1, end)

power_on_registers(n) ==
    [n EXCEPT !.cpu.p = 52, !.cpu.a = 0, !.cpu.x = 0, !.cpu.y = 0, !.cpu.s = 253]

power_on(n) ==
    write_zeros(
        write_zeros(
            Bus_write(Bus_write(power_on_registers(n), 16407, 0), 16405, 0),
            16384, 16399),
        16400, 16403)

clear(n) ==
    [n EXCEPT !.interrupt = insert(remove(@, BitOr(NMI, IRQ)), RESET),
              !.wram = Empty,
              !.ppu = Ppu_default]

Emulator_load_rom(n, rom) == clear(power_on(set_rom(n, rom)))

Emulator_set_controllers(n, c1, c2) ==
    [n EXCEPT !.controller_1 = c1, !.controller_2 = c2]

\* a mapper-0 cartridge with a 16 KiB PRG image: prog at $8000 (= $C000), the
\* rest filled with NOP, and the three vectors at $FFFA..$FFFF
Prg(prog, nmi, rst, irq) ==
    [a \in (0 .. Len(prog) - 1) \cup (16378 .. 16383) |->
        IF a < Len(prog) THEN prog[a + 1]
        ELSE IF a = 16378 THEN nmi % 256
        ELSE IF a = 16379 THEN nmi \div 256
        ELSE IF a = 16380 THEN rst % 256
        ELSE IF a = 16381 THEN rst \div 256
        ELSE IF a = 16382 THEN irq % 256
        ELSE irq \div 256]

\* Mapper0::new: mirrored when the PRG image is 16 KiB
Mapper0_new(prg, fill, len, mirroring) ==
    [kind |-> "nrom", mirrored |-> (len = 16384), prg |-> prg, fill |-> fill,
     len |-> len, mirroring |-> mirroring]

Rom(prog, nmi, rst, irq, mirroring) ==
    Mapper0_new(Prg(prog, nmi, rst, irq), OP_NOP, 16384, mirroring)

(***************************************************************************)
(* What the last operation did: its name, the machine before it, the value *)
(* it returned, and for Nes::step the branch taken, the cycles counted and *)
(* the PPU dots stepped.  wrote2000 remembers a CPU write of $80 to $2000; *)
(* vblank_dot that the step processed line 241 dot 1 (the only place the   *)
(* frame buffers swap), after_vblank that the step before did; count       *)
(* counts the operations.                                                  *)
(***************************************************************************)
NoOp ==
    [op |-> "none", pre |-> <<>>, ret |-> 0, handler |-> FALSE, cycles |-> 0,
     dots |-> 0, wrote2000 |-> FALSE, vblank_dot |-> FALSE,
     after_vblank |-> FALSE, count |-> 0]

Did(op, ret) ==
    [last EXCEPT !.op = op, !.pre = nes, !.ret = ret, !.handler = FALSE,
                 !.cycles = 0, !.dots = 0, !.vblank_dot = FALSE,
                 !.after_vblank = FALSE, !.count = @ + 1]

DidStep(r) ==
    [last EXCEPT !.op = "step", !.pre = nes, !.ret = 0, !.handler = r.handler,
                 !.cycles = r.cycles, !.dots = r.dots,
                 !.vblank_dot = (r.n.buffer_index # nes.buffer_index),
                 !.after_vblank = last.vblank_dot, !.count = @ + 1]

\* the next cpu::step decodes an opcode of this model
Steppable(n) == runs_handler(n) \/ opcode_at_pc(n) \in Opcodes

(***************************************************************************)
(* Spec: the emulator driven through its public operations: Emulator::new, *)
(* load_rom and step_frame, whose loop runs one Nes::step per action.      *)
(***************************************************************************)
MaxFrames == 1

SamplingRates == {1, 40}

FramePeriods == {1, 7458}

Cartridges ==
    {Rom(<<OP_LDA_IMM, 128, OP_STA_ABS, 0, 32>>, 36864, 32768, 32768, "Horizontal"),
     Rom(<<OP_CLI, OP_NOP>>, 36880, 49154, 32768, "Vertical")}

Init ==
    /\ \E sr \in SamplingRates, fp \in FramePeriods : nes = Nes_new(sr, fp)
    /\ pc = "idle"
    /\ before = 0
    /\ last = NoOp
    /\ shadow = <<>>

load_rom ==
    /\ pc = "idle"
    /\ nes.mapper.kind = "default"
    /\ last.op = "none"
    /\ \E rom \in Cartridges :
          /\ last' = Did("load_rom", 0)
          /\ nes' = Emulator_load_rom(nes, rom)
    /\ UNCHANGED <<pc, before, shadow>>

\* the CPU writes $80 to $2000 (Bus::write), before the frame is run
write_2000 ==
    /\ pc = "idle"
    /\ nes.ppu.frames = 0
    /\ ~last.wrote2000
    /\ last.op \in {"none", "load_rom"}
    /\ nes' = Bus_write(nes, 8192, 128)
    /\ last' = [Did("write", 0) EXCEPT !.wrote2000 = TRUE]
    /\ UNCHANGED <<pc, before, shadow>>

step_frame_call ==
    /\ pc = "idle"
    /\ nes.ppu.frames < MaxFrames
    /\ before' = nes.ppu.frames
    /\ pc' = "step_frame"
    /\ UNCHANGED <<nes, last, shadow>>

\* one iteration of the loop; a step that leaves the machine as it was is
\* reported but not counted, so that repeating it is a stuttering step
step_frame_iter ==
    /\ pc = "step_frame"
    /\ before = nes.ppu.frames
    /\ Steppable(nes)
    /\ \E r \in {Nes_step_report(nes)} :
          /\ nes' = r.n
          /\ last' = IF r.n = nes THEN [DidStep(r) EXCEPT !.count = last.count]
                     ELSE DidStep(r)
    /\ UNCHANGED <<pc, before, shadow>>

step_frame_return ==
    /\ pc = "step_frame"
    /\ before # nes.ppu.frames
    /\ pc' = "idle"
    /\ last' = Did("step_frame", 0)
    /\ UNCHANGED <<nes, before, shadow>>

Next ==
    \/ load_rom
    \/ write_2000
    \/ step_frame_call
    \/ step_frame_iter
    \/ step_frame_return

Spec == Init /\ [][Next]_vars

\* C1: from the state load_rom leaves, every step_frame() terminates and
\* returns with the frame counter one greater than at the call.  A loop
\* iteration whose step() leaves the machine as it was repeats forever, so
\* termination needs every iteration on a loaded machine to change the
\* machine; and a return has frames = before + 1.
C1_StepFrameTerminates ==
    /\ (pc = "step_frame" /\ before = nes.ppu.frames /\ nes.mapper.kind = "nrom")
           => Nes_step(nes) # nes
    /\ (last.op = "step_frame" /\ nes.mapper.kind = "nrom")
           => nes.ppu.frames = before + 1

\* C2: every step() runs the interrupt handler, and fetches no instruction,
\* exactly when the interrupt latch is non-empty at its start, whatever the
\* status register holds; with an empty latch it runs one instruction.
C2_DispatchOnLatch ==
    last.op = "step" => (last.handler <=> last.pre.interrupt # NO_INTERRUPT)

\* C4: NMI latency.  After the CPU wrote $80 to $2000 (rendering disabled),
\* the step that processes line 241 dot 1 leaves NMI in the latch, and the
\* very next step services it: PC and P | $20 are on the stack, PC comes
\* from $FFFA/$FFFB and NMI has left the latch.
C4_NmiLatency ==
    /\ (last.op = "step" /\ last.wrote2000 /\ last.vblank_dot)
           => contains(nes.interrupt, NMI)
    /\ (last.op = "step" /\ last.wrote2000 /\ last.after_vblank)
           => /\ last.handler
              /\ ~contains(nes.interrupt, NMI)
              /\ nes.cpu.pc = Mapper_read(nes.mapper, 65530)
                              + 256 * Mapper_read(nes.mapper, 65531)
              /\ nes.cpu.s = ByteSub(last.pre.cpu.s, 3)
              /\ Load(nes.wram, 256 + last.pre.cpu.s) = last.pre.cpu.pc \div 256
              /\ Load(nes.wram, 256 + ByteSub(last.pre.cpu.s, 1))
                     = last.pre.cpu.pc % 256
              /\ Load(nes.wram, 256 + ByteSub(last.pre.cpu.s, 2))
                     = BitOr(last.pre.cpu.p, 32)

(***************************************************************************)
(* SpecStep: Nes::step called on a loaded machine, for both values of the  *)
(* I flag, every content of the interrupt latch and both cycle parities.   *)
(***************************************************************************)
MaxSteps == 6

\* LDA #$02; STA $4014; PHA; PLA; PHP; PLP; BRK  and  PHP; PLP; CLI; SEI; NOP; BRK
StepCartridges ==
    {Rom(<<OP_LDA_IMM, 2, OP_STA_ABS, 20, 64, OP_PHA, OP_PLA, OP_PHP, OP_PLP,
           OP_BRK>>, 36864, 32768, 32768, "Horizontal"),
     Rom(<<OP_PHP, OP_PLP, OP_CLI, OP_SEI, OP_NOP, OP_BRK>>,
         36864, 32768, 32770, "Vertical")}

StatusValues == {52, 48}

Latches == 0 .. 15

StepInit ==
    /\ \E rom \in StepCartridges, p \in StatusValues, l \in Latches, c \in {0, 1} :
          nes = [Emulator_load_rom(Nes_new(1, 7458), rom) EXCEPT
                    !.cpu.p = p, !.interrupt = l, !.cpu.pc = 32768,
                    !.cpu.cycles = c]
    /\ pc = "idle"
    /\ before = 0
    /\ last = NoOp
    /\ shadow = <<>>

step ==
    /\ last.count < MaxSteps
    /\ Steppable(nes)
    /\ \E r \in {Nes_step_report(nes)} :
          /\ nes' = r.n
          /\ last' = DidStep(r)
    /\ UNCHANGED <<pc, before, shadow>>

StepNext == step

SpecStep == StepInit /\ [][StepNext]_vars

\* the dots the PPU has stepped since power-on, rendering disabled: every
\* frame is MAX_LINE + 1 lines of MAX_DOT scan positions
dots_stepped(n) ==
    (n.ppu.frames * (MAX_LINE + 1) + n.ppu.scan.line) * MAX_DOT + n.ppu.scan.dot

\* C3: over every step(), the PPU dots stepped are exactly 3 times the
\* increase of the CPU cycle counter during the call.
C3_ThreeDotsPerCycle ==
    last.op = "step" =>
        /\ last.dots = 3 * (nes.cpu.cycles - last.pre.cpu.cycles)
        /\ dots_stepped(nes) - dots_stepped(last.pre) = last.dots

\* a step that ran the STA $4014 of the first cartridge: an OAM DMA
C3_Witness ==
    /\ last.op = "step"
    /\ ~last.handler
    /\ nes.cpu.cycles - last.pre.cpu.cycles > 500
    /\ last.dots > 1500

(***************************************************************************)
(* SpecIntr: Interrupt::get and handle_interrupt called on a loaded        *)
(* machine, for every content of the latch, both values of the I flag and  *)
(* stack pointers on both sides of the wrap.                               *)
(***************************************************************************)
MaxCalls == 3

\* vectors with distinct low and high bytes: NMI $9012, RESET $8034, IRQ $A056
IntrCartridges ==
    {Rom(<<OP_NOP>>, 36882, 32820, 41046, "Horizontal"),
     Rom(<<OP_NOP>>, 32820, 41046, 36882, "Horizontal")}

StackStarts == {253, 2, 1, 0}

IntrInit ==
    /\ \E rom \in IntrCartridges, p \in StatusValues, l \in Latches,
          s \in StackStarts :
          nes = [Emulator_load_rom(Nes_new(1, 7458), rom) EXCEPT
                    !.cpu.p = p, !.interrupt = l, !.cpu.s = s, !.cpu.pc = 4660]
    /\ pc = "idle"
    /\ before = 0
    /\ last = NoOp
    /\ shadow = <<>>

\* Interrupt::get takes &self: the latch is read, nothing is written
call_get ==
    /\ last.count < MaxCalls
    /\ last' = Did("get", Interrupt_get(nes.interrupt))
    /\ UNCHANGED <<nes, pc, before, shadow>>

call_handle_interrupt ==
    /\ last.count < MaxCalls
    /\ \E r \in {handle_interrupt(nes)} :
          /\ nes' = r.n
          /\ last' = Did("handle_interrupt", r.cycles)
    /\ UNCHANGED <<pc, before, shadow>>

IntrNext ==
    \/ call_get
    \/ call_handle_interrupt

SpecIntr == IntrInit /\ [][IntrNext]_vars

\* the pending flag of highest priority in a latch
top_flag(latch) ==
    IF latch >= 8 THEN 8 ELSE IF latch >= 4 THEN 4 ELSE IF latch >= 2 THEN 2
    ELSE IF latch >= 1 THEN 1 ELSE 0

\* C38: handle_interrupt leaves the latch as it was or removes from it the
\* one flag Interrupt::get returned, and removes it exactly when the
\* interrupt was serviced (cycles were spent); every other pending flag
\* stays pending; with an empty latch no state changes and 0 is returned.
C38_LatchAfterHandle ==
    last.op = "handle_interrupt" =>
        /\ nes.interrupt \in {last.pre.interrupt,
                               last.pre.interrupt - top_flag(last.pre.interrupt)}
        /\ (nes.interrupt # last.pre.interrupt) = (last.ret > 0)
        /\ last.ret = 0 => nes = last.pre
        /\ last.pre.interrupt = 0 => (nes = last.pre /\ last.ret = 0)

\* an NMI was serviced with IRQ and BRK pending: both are still pending
C38_Witness ==
    /\ last.op = "handle_interrupt"
    /\ last.pre.interrupt = 7
    /\ nes.interrupt = 3
    /\ last.ret > 0

\* the priority order of the interrupts, highest first
Priority == <<RESET, NMI, IRQ, BRK>>

Pending(latch) == {i \in 1 .. 4 : (latch \div Priority[i]) % 2 = 1}

Highest(latch) ==
    IF Pending(latch) = {} THEN NO_INTERRUPT
    ELSE Priority[CHOOSE i \in Pending(latch) : \A j \in Pending(latch) : i <= j]

\* C5: for every subset of {RESET, NMI, IRQ, BRK} in the latch, get() returns
\* the one pending flag of highest priority, RESET > NMI > IRQ > BRK, or
\* NO_INTERRUPT for the empty latch, and leaves the latch unchanged.
C5_GetHighestPending ==
    last.op = "get" =>
        /\ last.ret = Highest(last.pre.interrupt)
        /\ nes.interrupt = last.pre.interrupt

\* get() on a latch holding NMI, IRQ and BRK answered NMI
C5_Witness ==
    /\ last.op = "get"
    /\ last.pre.interrupt = 7
    /\ last.ret = NMI
    /\ nes.interrupt = 7

\* the word a vector holds, low byte first
vector_word(n, addr) == Mapper_read(n.mapper, addr) + 256 * Mapper_read(n.mapper, addr + 1)

\* C6: a pending IRQ (the highest pending interrupt) is serviced only while
\* the I flag is clear: then PC and status are pushed, I is set, PC comes
\* from $FFFE and IRQ leaves the latch; with I set IRQ stays pending, no CPU
\* state changes and 0 cycles are consumed.
C6_IrqGatedByIClear ==
    (last.op = "handle_interrupt" /\ Highest(last.pre.interrupt) = IRQ) =>
        IF ~contains(last.pre.cpu.p, Status_I)
        THEN /\ nes.interrupt = last.pre.interrupt - IRQ
             /\ contains(nes.cpu.p, Status_I)
             /\ nes.cpu.pc = vector_word(nes, 65534)
             /\ nes.cpu.s = (last.pre.cpu.s + 253) % 256
             /\ Load(nes.wram, 256 + last.pre.cpu.s) = last.pre.cpu.pc \div 256
        ELSE /\ nes = last.pre
             /\ last.ret = 0

\* C7: servicing RESET takes 7 cycles (5 idle, two vector reads), loads PC
\* from the little-endian word at $FFFC/$FFFD, sets I, lowers S by 3 modulo
\* 256, writes nothing to memory and removes RESET from the latch.
C7_ResetSequence ==
    (last.op = "handle_interrupt" /\ (last.pre.interrupt \div RESET) % 2 = 1) =>
        /\ last.ret = 7
        /\ nes.cpu.cycles = last.pre.cpu.cycles + 7
        /\ nes.cpu.pc = vector_word(last.pre, 65532)
        /\ (nes.cpu.p \div Status_I) % 2 = 1
        /\ nes.cpu.s = (last.pre.cpu.s + 253) % 256
        /\ nes.wram = last.pre.wram
        /\ nes.oam = last.pre.oam
        /\ nes.name_table = last.pre.name_table
        /\ nes.pallete_ram_idx = last.pre.pallete_ram_idx
        /\ nes.interrupt = last.pre.interrupt - RESET

\* RESET serviced with S = 1: S wraps to $FE and PC is $8034
C7_Witness ==
    /\ last.op = "handle_interrupt"
    /\ (last.pre.interrupt \div RESET) % 2 = 1
    /\ last.pre.cpu.s = 1
    /\ nes.cpu.s = 254
    /\ nes.cpu.pc = 32820
    /\ last.ret = 7

(***************************************************************************)
(* SpecDma: CPU writes to $4014 (Bus::write) on a machine whose work RAM   *)
(* holds data in the source pages, started on even and on odd cycles.      *)
(***************************************************************************)
MaxDma == 2

DmaPages == {0, 2, 7, 32}

\* the cells of a page that hold data: both ends and the middle
DmaCells == {0, 1, 127, 254, 255}

WramImage(pages) ==
    [a \in {q * 256 + i : q \in pages, i \in DmaCells} |-> 1 + (a % 251)]

DmaInit ==
    /\ \E pages \in {{2}, {0, 7}, {0, 2, 7}, {}}, c \in 0 .. 5 :
          nes = [Emulator_load_rom(Nes_new(1, 7458), CHOOSE rom \in IntrCartridges : TRUE)
                    EXCEPT !.wram = WramImage(pages), !.cpu.cycles = c]
    /\ pc = "idle"
    /\ before = 0
    /\ last = NoOp
    /\ shadow = <<>>

\* Bus::write(0x4014, page)
write_4014 ==
    /\ last.count < MaxDma
    /\ \E page \in DmaPages :
          /\ nes' = Bus_write(nes, 16404, page)
          /\ last' = Did("dma", page)
    /\ UNCHANGED <<pc, before, shadow>>

DmaNext == write_4014

SpecDma == DmaInit /\ [][DmaNext]_vars

\* C8: a CPU write to $4014 advances the CPU cycle counter by exactly 513
\* when it starts on an even cycle and exactly 514 when it starts on an odd
\* cycle, for every page value.
C8_DmaCycles ==
    last.op = "dma" =>
        nes.cpu.cycles - last.pre.cpu.cycles
            = IF last.pre.cpu.cycles % 2 = 0 THEN 513 ELSE 514

\* C9: after a CPU write of page p to $4014 with OAM address 0, primary OAM
\* byte i equals the CPU-bus byte at (p << 8) | i, for every i in 0..255.
C9_DmaCopiesPage ==
    (last.op = "dma" /\ last.pre.ppu.oam_address = 0) =>
        \A i \in 0 .. 255 :
            Load(nes.oam.primary, i) = read_bus(last.pre, last.ret * 256 + i).v

(***************************************************************************)
(* SpecStack: byte and word pushes followed by pulls in reverse order.     *)
(* shadow is the list of what is on the stack: for every push its kind,    *)
(* its value and the S it found.  A run may begin by filling the stack up  *)
(* to FillBytes bytes, so that pushes reach the 256 bytes the page holds.  *)
(***************************************************************************)
MaxPushes == 3

FillBytes == 252

\* the stack page: S is a Byte and the stack lives at $0100 + S
StackBytes == 256

ByteValues == {90}

WordValues == {4862}

StackPointers == {253, 1, 0}

Bytes(sh) == Len(sh) + Cardinality({i \in 1 .. Len(sh) : sh[i].kind = "word"})

pushed_byte(r, v) ==
    [n |-> push_stack(r.n, v),
     sh |-> Append(r.sh, [kind |-> "byte", v |-> v, s |-> r.n.cpu.s])]

\* k byte pushes, the i-th byte on the stack being 1 + (i % 251)
RECURSIVE push_run(_, _)
push_run(r, k) ==
    IF k = 0 THEN r
    ELSE IF k = 1 THEN pushed_byte(r, 1 + (Len(r.sh) % 251))
    ELSE CHOOSE q \in {push_run(h, k - k \div 2) : h \in {push_run(r, k \div 2)}} : TRUE

StackInit ==
    /\ \E s \in StackPointers :
          nes = [Emulator_load_rom(Nes_new(1, 7458), CHOOSE rom \in IntrCartridges : TRUE)
                    EXCEPT !.cpu.s = s]
    /\ pc = "push"
    /\ before = 0
    /\ last = NoOp
    /\ shadow = <<>>

push_fill ==
    /\ pc = "push"
    /\ last.op = "none"
    /\ \E r \in {push_run([n |-> nes, sh |-> <<>>], FillBytes)} :
          /\ nes' = r.n
          /\ shadow' = r.sh
    /\ last' = [Did("fill", 0) EXCEPT !.count = 0]
    /\ UNCHANGED <<pc, before>>

push_byte ==
    /\ pc = "push"
    /\ last.count < MaxPushes
    /\ Bytes(shadow) + 1 <= StackBytes
    /\ \E v \in ByteValues :
          /\ nes' = push_stack(nes, v)
          /\ shadow' = Append(shadow, [kind |-> "byte", v |-> v, s |-> nes.cpu.s])
    /\ last' = Did("push_stack", 0)
    /\ UNCHANGED <<pc, before>>

push_word ==
    /\ pc = "push"
    /\ last.count < MaxPushes
    /\ Bytes(shadow) + 2 <= StackBytes
    /\ \E w \in WordValues :
          /\ nes' = push_stack_word(nes, w)
          /\ shadow' = Append(shadow, [kind |-> "word", v |-> w, s |-> nes.cpu.s])
    /\ last' = Did("push_stack_word", 0)
    /\ UNCHANGED <<pc, before>>

\* what a pull returned, what the matching push had pushed and the S it found
Pulled(r, top) == [got |-> r.v, pushed |-> top.v, s |-> top.s]

pull_byte ==
    /\ shadow # <<>>
    /\ shadow[Len(shadow)].kind = "byte"
    /\ \E r \in {pull_stack(nes)} :
          /\ nes' = r.n
          /\ last' = Did("pull_stack", Pulled(r, shadow[Len(shadow)]))
    /\ shadow' = SubSeq(shadow, 1, Len(shadow) - 1)
    /\ pc' = "pull"
    /\ UNCHANGED before

pull_word ==
    /\ shadow # <<>>
    /\ shadow[Len(shadow)].kind = "word"
    /\ \E r \in {pull_stack_word(nes)} :
          /\ nes' = r.n
          /\ last' = Did("pull_stack_word", Pulled(r, shadow[Len(shadow)]))
    /\ shadow' = SubSeq(shadow, 1, Len(shadow) - 1)
    /\ pc' = "pull"
    /\ UNCHANGED before

StackNext ==
    \/ push_fill
    \/ push_byte
    \/ push_word
    \/ pull_byte
    \/ pull_word

SpecStack == StackInit /\ [][StackNext]_vars

\* C10: for every starting S, wrap included, and pushes of at most 256 bytes
\* in all, each pull in reverse order returns the value its push had pushed
\* and puts S back to the value that push had found; every byte written by
\* a push lies in $0100..$01FF, S stays a byte (so every access is at
\* $0100 + S within the page), and what is still on the stack sits at
\* $0100 + S of its push (a word: high byte there, low byte one below,
\* modulo 256).
C10_StackRoundTrip ==
    /\ last.op \in {"pull_stack", "pull_stack_word"} =>
           /\ last.ret.got = last.ret.pushed
           /\ nes.cpu.s = last.ret.s
    /\ DOMAIN nes.wram \subseteq 256 .. 511
    /\ nes.cpu.s \in 0 .. 255
    /\ \A i \in 1 .. Len(shadow) :
           IF shadow[i].kind = "byte"
           THEN Load(nes.wram, 256 + shadow[i].s) = shadow[i].v
           ELSE /\ Load(nes.wram, 256 + shadow[i].s) = shadow[i].v \div 256
                /\ Load(nes.wram, 256 + ((shadow[i].s + 255) % 256)) = shadow[i].v % 256

\* a word pushed at S = 0 and pulled again: high byte at $0100, low byte at
\* $01FF, S back at 0
C10_Witness ==
    /\ last.op = "pull_stack_word"
    /\ last.ret.s = 0
    /\ last.ret.got = 4862
    /\ nes.cpu.s = 0
    /\ Load(nes.wram, 256) = 18
    /\ Load(nes.wram, 511) = 254

(***************************************************************************)
(* SpecBus: CPU reads and writes (Bus::read / Bus::write) of work RAM and  *)
(* of the PPU register window $2000..$3FFF on a loaded machine.            *)
(***************************************************************************)
MaxBus == 2

\* work RAM cells one mirror apart, PPU registers and their mirrors
BusAddrs == {0, 1, 2047, 2048, 2049, 6144, 8191,
             8192, 8193, 8194, 8195, 8197, 8198, 8200, 8201, 16377}

BusValues == {24, 128, 171}

BusInit ==
    /\ nes = Emulator_load_rom(Nes_new(1, 7458), CHOOSE rom \in IntrCartridges : TRUE)
    /\ pc = "idle"
    /\ before = 0
    /\ last = NoOp
    /\ shadow = <<>>

\* Bus::write(a, v)
cpu_write ==
    /\ last.count < MaxBus
    /\ \E a \in BusAddrs, v \in BusValues :
          /\ nes' = Bus_write(nes, a, v)
          /\ last' = Did("cpu_write", [addr |-> a, v |-> v])
    /\ UNCHANGED <<pc, before, shadow>>

\* Bus::read(a)
cpu_read ==
    /\ last.count < MaxBus
    /\ \E a \in BusAddrs :
          \E r \in {Bus_read(nes, a)} :
             /\ nes' = r.n
             /\ last' = Did("cpu_read", [addr |-> a, v |-> r.v])
    /\ UNCHANGED <<pc, before, shadow>>

BusNext ==
    \/ cpu_write
    \/ cpu_read

SpecBus == BusInit /\ [][BusNext]_vars

\* the PPU register an address of $2000..$3FFF selects: $2000 + (a & 7)
ppu_register_of(a) == 8192 + (a % 8)

\* C11: every CPU read or write at an address a in $2000..$3FFF has the
\* result and the effect of the same access at PPU register $2000 + (a & 7)
\* (the access costs its one CPU cycle either way).
C11_PpuRegisterMirror ==
    /\ (last.op = "cpu_write" /\ last.ret.addr \in 8192 .. 16383) =>
           nes = write_ppu_register(tick(last.pre, 1),
                                    ppu_register_of(last.ret.addr), last.ret.v)
    /\ (last.op = "cpu_read" /\ last.ret.addr \in 8192 .. 16383) =>
           /\ nes = read_ppu_register(tick(last.pre, 1),
                                      ppu_register_of(last.ret.addr)).n
           /\ last.ret.v = read_ppu_register(tick(last.pre, 1),
                                             ppu_register_of(last.ret.addr)).v

\* C17: work RAM is 2 KiB mirrored every $0800: a CPU write to a in
\* $0000..$1FFF is read back from every a' in $0000..$1FFF with
\* a' mod $0800 = a mod $0800.
C17_WramMirror ==
    (last.op = "cpu_write" /\ last.ret.addr \in 0 .. 8191) =>
        \A b \in {x \in BusAddrs : x <= 8191} :
            (b % 2048 = last.ret.addr % 2048) => read_bus(nes, b).v = last.ret.v

(***************************************************************************)
(* SpecReg: read_ppu_register and write_ppu_register called with the       *)
(* register addresses $2000, $2002, $2005 and $2006.  The machine starts   *)
(* with the PPU status, the data bus latch and the scan position a running *)
(* PPU leaves: VBLANK stays set from line 241 until $2002 is read, the     *)
(* sprite flags come from rendering, the data bus latch holds the last     *)
(* value read ($2004 reads $FF during sprite evaluation).                  *)
(***************************************************************************)
MaxReg == 4

RegValues == {171, 205, 7}

RegStatus == {128, 224, 64}

RegScans == {[dot |-> 0, line |-> 0], [dot |-> 1, line |-> 241]}

RegInit ==
    /\ \E st \in RegStatus, bus \in {0, 255}, sc \in RegScans :
          nes = [Emulator_load_rom(Nes_new(1, 7458),
                                   CHOOSE rom \in IntrCartridges : TRUE)
                    EXCEPT !.ppu.status = st, !.ppu.internal_data_bus = bus,
                           !.ppu.scan = sc]
    /\ pc = "idle"
    /\ before = 0
    /\ last = NoOp
    /\ shadow = <<>>

\* the register access before this one: its kind, its address and the write
\* toggle it found
Prev ==
    IF last.op \in {"reg_write", "reg_read"}
    THEN [op |-> last.op, addr |-> last.ret.addr, v |-> last.ret.v,
          toggle |-> last.pre.ppu.write_toggle]
    ELSE [op |-> "none", addr |-> 0, v |-> 0, toggle |-> FALSE]

reg_write ==
    /\ last.count < MaxReg
    /\ \E a \in {8192, 8197, 8198}, d \in RegValues :
          /\ nes' = write_ppu_register(nes, a, d)
          /\ last' = Did("reg_write", [addr |-> a, v |-> d, prev |-> Prev])
    /\ UNCHANGED <<pc, before, shadow>>

reg_read ==
    /\ last.count < MaxReg
    /\ \E a \in {8194} :
          \E r \in {read_ppu_register(nes, a)} :
             /\ nes' = r.n
             /\ last' = Did("reg_read", [addr |-> a, v |-> r.v, prev |-> Prev])
    /\ UNCHANGED <<pc, before, shadow>>

RegNext ==
    \/ reg_write
    \/ reg_read

SpecReg == RegInit /\ [][RegNext]_vars

\* what a $2002 read leaves behind: VBLANK and the write toggle clear, the
\* sprite flags as they were; a read right after another has bit 7 clear
StatusReadEffects ==
    /\ ~contains(nes.ppu.status, Status_VBLANK)
    /\ ~nes.ppu.write_toggle
    /\ BitAnd(nes.ppu.status, 96) = BitAnd(last.pre.ppu.status, 96)
    /\ (last.ret.prev.op = "reg_read" /\ last.ret.prev.addr = 8194)
           => last.ret.v < 128

\* the status bits OR'd with the low 5 bits of the data bus latch
StatusWithBus == BitOr(last.pre.ppu.status, BitAnd(last.pre.ppu.internal_data_bus, 31))

C13_VramAddressWrites ==
    /\ (last.op = "reg_write" /\ last.ret.addr = 8198 /\ ~last.pre.ppu.write_toggle)
          => /\ nes.ppu.v = last.pre.ppu.v
             /\ nes.ppu.write_toggle
    /\ (/\ last.op = "reg_write" /\ last.ret.addr = 8198
        /\ last.ret.prev.op = "reg_write" /\ last.ret.prev.addr = 8198
        /\ ~last.ret.prev.toggle)
          => /\ nes.ppu.t = (last.ret.prev.v % 64) * 256 + last.ret.v
             /\ nes.ppu.v = nes.ppu.t
             /\ ~nes.ppu.write_toggle

\* C14: a write of d to $2000 sets bits 10-11 of t to d & 3, leaves the
\* other bits of t and all of v unchanged, and sets the Controller flags
\* (bits 2..7) from d.
C14_ControllerWrite ==
    (last.op = "reg_write" /\ last.ret.addr = 8192) =>
        /\ nes.ppu.t = BitAnd(last.pre.ppu.t, 65535 - 3072) + (last.ret.v % 4) * 1024
        /\ nes.ppu.v = last.pre.ppu.v
        /\ nes.ppu.ctrl = BitAnd(last.ret.v, 252)

(***************************************************************************)
(* SpecVram: writes on the PPU bus (Nes::write_ppu) to the nametables and  *)
(* the palette, on a machine whose cartridge has just been set             *)
(* (Nes::set_rom), for both mirrorings.  shadow is the memory the writes   *)
(* address: for every logical cell the value last written to it.           *)
(***************************************************************************)
MaxVram == 2

\* $3F00/$3F10, $3F04/$3F14, $3F08/$3F18, $3F0C/$3F1C, $3F01/$3F21, $3FFF
PaletteAddrs == {16128, 16144, 16132, 16148, 16136, 16152, 16140, 16156,
                 16129, 16161, 16383}

\* $2000, $2001, $23FF, $2400, $2800, $2C00, $3000, $3EFF
NameTableAddrs == {8192, 8193, 9215, 9216, 10240, 11264, 12288, 16127}

VramValues == {17, 34}

VramInit ==
    /\ \E rom \in Cartridges :
          nes = set_rom(Nes_new(1, 7458), rom)
    /\ pc = "idle"
    /\ before = 0
    /\ last = NoOp
    /\ shadow = Empty

\* the palette entry an address names: 32 entries, of which $10, $14, $18
\* and $1C are $00, $04, $08 and $0C
PaletteCell(a) ==
    IF (a % 32) \in {16, 20, 24, 28} THEN (a % 32) - 16 ELSE a % 32

\* the nametable cell an address names: $3000..$3EFF is $2000..$2EFF, and
\* of the four 1 KiB tables vertical mirroring pairs 0 with 2 and 1 with 3,
\* horizontal mirroring pairs 0 with 1 and 2 with 3
NameTableCell(a, mirroring) ==
    IF mirroring = "Vertical"
    THEN (((a % 4096) \div 1024) % 2) * 1024 + (a % 1024)
    ELSE (((a % 4096) \div 1024) \div 2) * 1024 + (a % 1024)

\* the logical cell of a PPU-bus address; palette cells follow the 2048
\* nametable cells
VramCell(a, mirroring) ==
    IF a >= 16128 THEN 2048 + PaletteCell(a) ELSE NameTableCell(a, mirroring)

ppu_write ==
    /\ last.count < MaxVram
    /\ \E a \in PaletteAddrs \cup NameTableAddrs, v \in VramValues :
          /\ nes' = write_ppu(nes, a, v)
          /\ shadow' = Store(shadow, VramCell(a, nes.ppu.mirroring), v)
          /\ last' = Did("ppu_write", [addr |-> a, v |-> v])
    /\ UNCHANGED <<pc, before>>

VramNext == ppu_write

SpecVram == VramInit /\ [][VramNext]_vars

\* C15: after any sequence of PPU-bus writes to $3F00..$3FFF, $3F10, $3F14,
\* $3F18 and $3F1C read what $3F00, $3F04, $3F08 and $3F0C read, and every
\* palette address reads the value last written to its entry.
C15_PaletteMirror ==
    /\ read_ppu(nes, 16144) = read_ppu(nes, 16128)
    /\ read_ppu(nes, 16148) = read_ppu(nes, 16132)
    /\ read_ppu(nes, 16152) = read_ppu(nes, 16136)
    /\ read_ppu(nes, 16156) = read_ppu(nes, 16140)
    /\ \A a \in PaletteAddrs :
           read_ppu(nes, a) = Load(shadow, 2048 + PaletteCell(a))

\* $3F10 written, then $3F00 written with another value: both read the
\* second value
C15_Witness ==
    /\ last.op = "ppu_write"
    /\ last.ret.addr = 16128
    /\ last.pre.pallete_ram_idx # Empty
    /\ read_ppu(last.pre, 16144) = 17
    /\ last.ret.v = 34
    /\ read_ppu(nes, 16144) = 34
    /\ read_ppu(nes, 16128) = 34

\* C16: nametable mirroring: every nametable address reads the value last
\* written to its cell, where vertical mirroring makes $2000+k and $2800+k
\* one cell and $2400+k and $2C00+k another, horizontal mirroring makes
\* $2000+k and $2400+k one cell and $2800+k and $2C00+k another, distinct
\* offsets are distinct cells and $3000..$3EFF is $2000..$2EFF.
C16_NameTableMirror ==
    \A a \in NameTableAddrs :
        read_ppu(nes, a) = Load(shadow, NameTableCell(a, nes.ppu.mirroring))

(***************************************************************************)
(* SpecCtrl: a StandardController on port 1 (Emulator::set_controllers),   *)
(* its buttons set by update, strobed and read by the CPU at $4016.        *)
(* shadow remembers the last two values written to $4016 and the number of *)
(* reads since the last write.                                             *)
(***************************************************************************)
MaxCtrl == 10

\* A+Select+Down+Right, B+Start+Up+Left
ButtonStates == {165, 90}

CtrlInit ==
    /\ \E s \in ButtonStates :
          nes = Emulator_set_controllers(
                    Emulator_load_rom(Nes_new(1, 7458),
                                      CHOOSE rom \in IntrCartridges : TRUE),
                    Controller_update(StandardController, s), Controller_Empty)
    /\ pc = "idle"
    /\ before = 0
    /\ last = NoOp
    /\ shadow = [prev |-> 0, cur |-> 0, reads |-> 0]

\* Bus::write(0x4016, v)
strobe_write ==
    /\ last.count < MaxCtrl
    /\ \E v \in {0, 1} :
          /\ nes' = Bus_write(nes, 16406, v)
          /\ shadow' = [prev |-> shadow.cur, cur |-> v, reads |-> 0]
          /\ last' = Did("strobe_write", v)
    /\ UNCHANGED <<pc, before>>

\* Bus::read(0x4016)
controller_read ==
    /\ last.count < MaxCtrl
    /\ \E r \in {Bus_read(nes, 16406)} :
          /\ nes' = r.n
          /\ last' = Did("controller_read", r.v)
    /\ shadow' = [shadow EXCEPT !.reads = @ + 1]
    /\ UNCHANGED <<pc, before>>

CtrlNext ==
    \/ strobe_write
    \/ controller_read

SpecCtrl == CtrlInit /\ [][CtrlNext]_vars

\* C18: while strobe is 1 every read returns button A (bit 0 of the button
\* state) in bit 0; after strobe is written 1 then 0, the k-th read
\* (k = 1..8) returns bit k-1 of the button state in bit 0 with $40 OR'd in.
C18_ControllerProtocol ==
    /\ (last.op = "controller_read" /\ shadow.cur = 1) =>
           last.ret % 2 = nes.controller_1.state % 2
    /\ (/\ last.op = "controller_read"
        /\ shadow.prev = 1 /\ shadow.cur = 0 /\ shadow.reads \in 1 .. 8) =>
           last.ret = 64 + nth(nes.controller_1.state, shadow.reads - 1)

(***************************************************************************)
(* SpecApu: a program sets the APU up through the bus ($4000, $4003,       *)
(* $4015, $4017), then apu::step runs, with reads of $4015 in between.     *)
(* shadow.len is the pulse-1 length counter a decrementing counter would   *)
(* hold: loaded by a $4003 write while enabled, zeroed by a $4015 write    *)
(* with bit 0 clear, lowered by 1 toward zero on each length clock with    *)
(* halt clear; shadow.writes and shadow.reads count the bus accesses.      *)
(***************************************************************************)
MaxTicks == 20

MaxApuWrites == 2

MaxApuReads == 2

ApuFramePeriods == {1, 2}

\* enable pulse 1, disable all, length index 0 (10) and 3 (2), halt, IRQ
\* inhibit, five-step mode
ApuWrites ==
    {<<16405, 1>>, <<16405, 0>>, <<16387, 0>>, <<16387, 24>>, <<16384, 32>>,
     <<16407, 64>>, <<16407, 128>>}

ApuInit ==
    /\ \E fp \in ApuFramePeriods :
          nes = Emulator_load_rom(Nes_new(1, fp), CHOOSE rom \in IntrCartridges : TRUE)
    /\ pc = "idle"
    /\ before = 0
    /\ last = NoOp
    /\ shadow = [len |-> 0, writes |-> 0, reads |-> 0]

\* the length counter a decrementing counter holds after the write
len_written(n, w, len) ==
    IF w[1] = 16387 /\ n.apu.pulse1.enabled THEN LENGTH_TABLE[(w[2] \div 8) + 1]
    ELSE IF w[1] = 16405 /\ w[2] % 2 = 0 THEN 0
    ELSE len

\* Bus::write to an APU register, before the first apu::step
apu_write ==
    /\ shadow.writes < MaxApuWrites
    /\ nes.apu.cycles = 0
    /\ \E w \in ApuWrites :
          /\ nes' = Bus_write(nes, w[1], w[2])
          /\ shadow' = [shadow EXCEPT !.writes = @ + 1,
                                      !.len = len_written(nes, w, @)]
          /\ last' = Did("apu_write", w)
    /\ UNCHANGED <<pc, before>>

\* Bus::read(0x4015)
apu_read ==
    /\ shadow.reads < MaxApuReads
    /\ \E r \in {Bus_read(nes, 16405)} :
          /\ nes' = r.n
          /\ last' = Did("apu_read", r.v)
    /\ shadow' = [shadow EXCEPT !.reads = @ + 1]
    /\ UNCHANGED <<pc, before>>

\* the step called the pulse-1 length clock
length_clocked(pre, post) ==
    post.apu.clocks.pulse1_length # pre.apu.clocks.pulse1_length

\* the length counter a decrementing counter holds after the step
len_clocked(pre, post, len) ==
    IF length_clocked(pre, post) /\ ~length_counter_halt(pre.apu.pulse1) /\ 0 < len
    THEN len - 1 ELSE len

\* apu::step
apu_tick ==
    /\ nes.apu.cycles < MaxTicks
    /\ \E r \in {apu_step(nes)} :
          /\ nes' = r.n
          /\ shadow' = [shadow EXCEPT !.len = len_clocked(nes, r.n, @)]
          /\ last' = Did("apu_step", r.steal)
    /\ UNCHANGED <<pc, before>>

ApuNext ==
    \/ apu_write
    \/ apu_read
    \/ apu_tick

SpecApu == ApuInit /\ [][ApuNext]_vars

four_step_mode(a) == nth(a.frame_counter_control, 7) = 0

\* C19: in 4-step mode with halt clear, a read of $4015 returns bit 0 set
\* exactly while the pulse-1 length counter, loaded from the length table and
\* lowered by 1 toward zero on every length clock, is above zero (so it reads
\* 0 after 10 length clocks of a counter loaded with 10), and each length
\* clock lowers the counter by 1 unless it is 0 already.
C19_LengthCounter ==
    (four_step_mode(nes.apu) /\ ~length_counter_halt(nes.apu.pulse1)) =>
        /\ last.op = "apu_read" => (last.ret % 2 = 1 <=> 0 < shadow.len)
        /\ (last.op = "apu_step" /\ length_clocked(last.pre, nes)) =>
               nes.apu.pulse1.length_counter =
                   IF 0 < last.pre.apu.pulse1.length_counter
                   THEN last.pre.apu.pulse1.length_counter - 1 ELSE 0

\* the frame sequencer was clocked by the step that led here
sequencer_clocked(a) == a.cycles % a.frame_period = 0

\* what a four-step clock at step s adds to each call count
four_step_calls(s) ==
    [pulse1_envelope |-> 1, pulse2_envelope |-> 1, triangle_linear |-> 1,
     noise_envelope |-> 1,
     pulse1_length |-> IF s \in {1, 3} THEN 1 ELSE 0,
     pulse1_sweep |-> IF s \in {1, 3} THEN 1 ELSE 0,
     pulse2_length |-> IF s \in {1, 3} THEN 1 ELSE 0,
     pulse2_sweep |-> IF s \in {1, 3} THEN 1 ELSE 0,
     triangle_length |-> IF s \in {1, 3} THEN 1 ELSE 0,
     noise_length |-> IF s \in {1, 3} THEN 1 ELSE 0]

calls_added(pre, post) == [k \in DOMAIN post.clocks |-> post.clocks[k] - pre.clocks[k]]

\* C20: in 4-step mode an apu::step clocks the frame sequencer exactly when
\* the cycle count reaches a multiple of frame_period; a clock at step s moves
\* to step (s + 1) mod 4, clocks every envelope and the triangle linear
\* counter once, clocks the length counters and sweep units once when s is 1
\* or 3 and not otherwise, and raises the frame IRQ flag exactly when s is 3
\* and the inhibit bit is clear.
C20_FourStepSequencer ==
    (last.op = "apu_step" /\ four_step_mode(last.pre.apu)) =>
        /\ nes.apu.frame_sequence_step \in 0 .. 3
        /\ IF sequencer_clocked(nes.apu)
           THEN /\ nes.apu.frame_sequence_step =
                       (last.pre.apu.frame_sequence_step + 1) % 4
                /\ calls_added(last.pre.apu, nes.apu) =
                       four_step_calls(last.pre.apu.frame_sequence_step)
                /\ nes.apu.frame_interrupted =
                       (\/ last.pre.apu.frame_interrupted
                        \/ /\ last.pre.apu.frame_sequence_step = 3
                           /\ ~frame_interrupt_inhibit(last.pre.apu))
           ELSE /\ nes.apu.frame_sequence_step = last.pre.apu.frame_sequence_step
                /\ nes.apu.clocks = last.pre.apu.clocks
                /\ nes.apu.frame_interrupted = last.pre.apu.frame_interrupted

\* a clock at step 3 with the inhibit bit clear raised the frame IRQ flag,
\* after a full round of the four steps at frame period 2
C20_Witness ==
    /\ last.op = "apu_step"
    /\ four_step_mode(last.pre.apu)
    /\ sequencer_clocked(nes.apu)
    /\ nes.apu.frame_period = 2
    /\ last.pre.apu.frame_sequence_step = 3
    /\ nes.apu.frame_sequence_step = 0
    /\ ~last.pre.apu.frame_interrupted
    /\ nes.apu.frame_interrupted
    /\ nes.apu.clocks.pulse1_envelope = 8
    /\ nes.apu.clocks.pulse1_length = 4

\* what a five-step clock at step s adds to each call count, as stated:
\* envelopes and linear counter on steps 0 and 2, lengths and sweeps on 1 and 3
five_step_calls(s) ==
    [pulse1_envelope |-> IF s \in {0, 2} THEN 1 ELSE 0,
     pulse2_envelope |-> IF s \in {0, 2} THEN 1 ELSE 0,
     triangle_linear |-> IF s \in {0, 2} THEN 1 ELSE 0,
     noise_envelope |-> IF s \in {0, 2} THEN 1 ELSE 0,
     pulse1_length |-> IF s \in {1, 3} THEN 1 ELSE 0,
     pulse1_sweep |-> IF s \in {1, 3} THEN 1 ELSE 0,
     pulse2_length |-> IF s \in {1, 3} THEN 1 ELSE 0,
     pulse2_sweep |-> IF s \in {1, 3} THEN 1 ELSE 0,
     triangle_length |-> IF s \in {1, 3} THEN 1 ELSE 0,
     noise_length |-> IF s \in {1, 3} THEN 1 ELSE 0]

\* C21: in 5-step mode a clock of the frame sequencer at step s moves to step
\* (s + 1) mod 5, clocks the envelopes and the triangle linear counter
\* exactly when s is 0 or 2, the length counters and sweep units exactly when
\* s is 1 or 3, nothing when s is 4, and never raises the frame IRQ flag.
C21_FiveStepSequencer ==
    (/\ last.op = "apu_step"
     /\ ~four_step_mode(last.pre.apu)
     /\ sequencer_clocked(nes.apu)) =>
        /\ nes.apu.frame_sequence_step = (last.pre.apu.frame_sequence_step + 1) % 5
        /\ calls_added(last.pre.apu, nes.apu) =
               five_step_calls(last.pre.apu.frame_sequence_step)
        /\ nes.apu.frame_interrupted = last.pre.apu.frame_interrupted

(***************************************************************************)
(* SpecPulse: writes to $4000, $4003 and $4007 at any time between         *)
(* apu::step calls, at frame period 1 (every step clocks the envelopes).   *)
(* shadow.restart1 and shadow.restart2 remember a write to $4003 and to    *)
(* $4007 until the next envelope clock.                                    *)
(***************************************************************************)
MaxPulse == 6

PulseWrites ==
    {<<16384, 3>>, <<16387, 0>>, <<16387, 255>>, <<16391, 0>>, <<16391, 255>>}

PulseInit ==
    /\ nes = Emulator_load_rom(Nes_new(1, 1), CHOOSE rom \in IntrCartridges : TRUE)
    /\ pc = "idle"
    /\ before = 0
    /\ last = NoOp
    /\ shadow = [restart1 |-> FALSE, restart2 |-> FALSE]

\* Bus::write to a pulse register
pulse_write ==
    /\ last.count < MaxPulse
    /\ \E w \in PulseWrites :
          /\ nes' = Bus_write(nes, w[1], w[2])
          /\ shadow' = [restart1 |-> shadow.restart1 \/ w[1] = 16387,
                        restart2 |-> shadow.restart2 \/ w[1] = 16391]
          /\ last' = Did("pulse_write", w[1])
    /\ UNCHANGED <<pc, before>>

\* apu::step
pulse_tick ==
    /\ last.count < MaxPulse
    /\ \E r \in {apu_step(nes)} :
          /\ nes' = r.n
          /\ last' = Did("apu_step", shadow)
    /\ shadow' = [restart1 |-> FALSE, restart2 |-> FALSE]
    /\ UNCHANGED <<pc, before>>

PulseNext ==
    \/ pulse_write
    \/ pulse_tick

SpecPulse == PulseInit /\ [][PulseNext]_vars

\* C22: after a write to $4003 pulse 1's sequencer index is 0 and its
\* envelope start flag is set, and the next envelope clock leaves its decay
\* level at 15; after a write to $4007 the same holds of pulse 2.
C22_PulseRestart ==
    /\ (last.op = "pulse_write" /\ last.ret = 16387) =>
           nes.apu.pulse1.timer_sequencer = 0 /\ nes.apu.pulse1.envelope_start
    /\ (last.op = "pulse_write" /\ last.ret = 16391) =>
           nes.apu.pulse2.timer_sequencer = 0 /\ nes.apu.pulse2.envelope_start
    /\ (last.op = "apu_step" /\ last.ret.restart1) =>
           nes.apu.pulse1.envelope_decay_level_counter = 15
    /\ (last.op = "apu_step" /\ last.ret.restart2) =>
           nes.apu.pulse2.envelope_decay_level_counter = 15

(***************************************************************************)
(* The Scan of scanline.rs: dot, line, the Scanline of the line and the    *)
(* frame count.  Scanline::from panics on a line outside 0..261.           *)
(***************************************************************************)
Scanline_from(line) ==
    IF line <= 239 THEN "Visible"
    ELSE IF line = 241 THEN "PostNmi"
    ELSE IF line <= 260 THEN "Post"
    ELSE IF line = 261 THEN "Pre"
    ELSE "panic"

Scanline_Scan_new ==
    [dot |-> 0, line |-> 0, scanline |-> "Visible", frames |-> 0, panicked |-> FALSE]

\* the end of a line: line += 1, then Scanline::from(line), then the wrap
Scanline_line_end(s, dot) ==
    IF Scanline_from(s.line + 1) = "panic"
    THEN [s EXCEPT !.dot = dot, !.line = @ + 1, !.panicked = TRUE]
    ELSE IF MAX_LINE < s.line + 1
    THEN [s EXCEPT !.dot = dot, !.line = 0, !.scanline = Scanline_from(s.line + 1),
                   !.frames = @ + 1]
    ELSE [s EXCEPT !.dot = dot, !.line = @ + 1, !.scanline = Scanline_from(s.line + 1)]

\* Scan::next of scanline.rs; nothing runs after a panic
Scanline_Scan_next(s) ==
    IF s.panicked THEN s
    ELSE IF MAX_DOT <= s.dot + 1 THEN Scanline_line_end(s, (s.dot + 1) % MAX_DOT)
    ELSE [s EXCEPT !.dot = @ + 1]

\* k calls of Scan::next, run as k \div 2 calls followed by the rest
RECURSIVE Scanline_run(_, _)
Scanline_run(s, k) ==
    IF k = 0 THEN s
    ELSE IF k = 1 THEN Scanline_Scan_next(s)
    ELSE CHOOSE r \in {Scanline_run(m, k - k \div 2) : m \in {Scanline_run(s, k \div 2)}} :
             TRUE

(***************************************************************************)
(* SpecScan: ppu::step run dot by dot after load_rom, under a Mask chosen  *)
(* at the start; from the first dot of a frame the steps up to line 260    *)
(* dot 300 can also be run in one go.  shadow.scan is the Scan of          *)
(* scanline.rs, advanced by Scan::next once per dot; shadow.count is the   *)
(* number of steps since the frame counter last changed, shadow.length the *)
(* count at that change and shadow.ends the number of changes so far.      *)
(***************************************************************************)
MaxScan == 800

BulkDots == 88700

ScanMasks == {0, 24}

ScanInit ==
    /\ \E m \in ScanMasks :
          nes = [Emulator_load_rom(Nes_new(1, 7458), CHOOSE rom \in IntrCartridges : TRUE)
                    EXCEPT !.ppu.mask = m]
    /\ pc = "idle"
    /\ before = 0
    /\ last = NoOp
    /\ shadow = [scan |-> Scanline_Scan_new, count |-> 0, length |-> 0, ends |-> 0]

\* the counters after steps that took the PPU from pre to post
scan_counted(pre, post, steps) ==
    IF post.ppu.frames # pre.ppu.frames
    THEN [count |-> 0, length |-> shadow.count + steps, ends |-> shadow.ends + 1]
    ELSE [count |-> shadow.count + steps, length |-> shadow.length, ends |-> shadow.ends]

scan_shadow(c, scan) ==
    [scan |-> scan, count |-> c.count, length |-> c.length, ends |-> c.ends]

\* one ppu::step
scan_step ==
    /\ last.count < MaxScan
    /\ \E n \in {ppu_step(nes)} :
          /\ nes' = n
          /\ shadow' = scan_shadow(scan_counted(nes, n, 1),
                                   Scanline_Scan_next(shadow.scan))
          /\ last' = Did("ppu_step", 1)
    /\ UNCHANGED <<pc, before>>

\* BulkDots calls of ppu::step from the first dot of a frame
scan_bulk ==
    /\ last.count < MaxScan
    /\ nes.ppu.scan = [dot |-> 0, line |-> 0]
    /\ \E n \in {ppu_run(nes, BulkDots)} :
          /\ n.ppu.frames = nes.ppu.frames
          /\ nes' = n
          /\ shadow' = scan_shadow(scan_counted(nes, n, BulkDots),
                                   Scanline_run(shadow.scan, BulkDots))
          /\ last' = Did("ppu_bulk", BulkDots)
    /\ UNCHANGED <<pc, before>>

ScanNext ==
    \/ scan_step
    \/ scan_bulk

SpecScan == ScanInit /\ [][ScanNext]_vars

\* C23: after any number of PPU steps under any Mask value the dot is in
\* 0..340 and the line in 0..261, the frame counter has not decreased, and
\* Scan::next has not reached the panic of an out-of-range line.
C23_ScanBounds ==
    /\ nes.ppu.scan.dot \in 0 .. 340
    /\ nes.ppu.scan.line \in 0 .. 261
    /\ last.op # "none" => nes.ppu.frames >= last.pre.ppu.frames
    /\ ~shadow.scan.panicked

\* the step skipped a dot: the dot moved on by 2, wrapping at the line's end
dot_skipped(pre, post) ==
    /\ post.dot # pre.dot + 1
    /\ ~(post.dot = 0 /\ (post.line = pre.line + 1 \/ post.line = 0))

\* C24: a step that increments the frame counter comes 89342 steps after the
\* previous increment, or 89341 when rendering is enabled and the frame that
\* ends is odd; a step skips a dot only on line 261 at the dot before 340.
C24_FrameLength ==
    last.op = "ppu_step" =>
        /\ (nes.ppu.frames # last.pre.ppu.frames /\ shadow.ends >= 2) =>
               shadow.length =
                   IF contains(nes.ppu.mask, Mask_RENDER_ENABLED)
                      /\ last.pre.ppu.frames % 2 = 1
                   THEN 89341 ELSE 89342
        /\ dot_skipped(last.pre.ppu.scan, nes.ppu.scan) =>
               last.pre.ppu.scan = [dot |-> 339, line |-> 261]

(***************************************************************************)
(* SpecBuf: ppu::step with background and sprites off, dot by dot or, from *)
(* two positions, many dots in one go; the colour at $3F00 is written      *)
(* by the program at dot 330 of a line.  shadow.swaps counts the buffer    *)
(* swaps since the frame counter last changed.                             *)
(***************************************************************************)
MaxBuf == 740

MaxPalette == 1

BufColours == {17, 34}

PaletteDot == 330

\* from the first dot of a frame to line 239 dot 330, and from line 241
\* dot 2 to line 261 dot 330
BufRuns ==
    {[dot |-> 0, line |-> 0, k |-> 81590], [dot |-> 2, line |-> 241, k |-> 7128]}

BufInit ==
    /\ nes = Emulator_load_rom(Nes_new(1, 7458), CHOOSE rom \in IntrCartridges : TRUE)
    /\ pc = "idle"
    /\ before = 0
    /\ last = NoOp
    /\ shadow = [swaps |-> 0, palette |-> 0]

buf_swaps(pre, post) ==
    IF post.ppu.frames # pre.ppu.frames THEN 0
    ELSE IF post.buffer_index # pre.buffer_index THEN shadow.swaps + 1
    ELSE shadow.swaps

\* one ppu::step
buf_step ==
    /\ last.count < MaxBuf
    /\ \E n \in {ppu_step(nes)} :
          /\ nes' = n
          /\ shadow' = [shadow EXCEPT !.swaps = buf_swaps(nes, n)]
          /\ last' = Did("ppu_step", shadow.swaps)
    /\ UNCHANGED <<pc, before>>

\* k calls of ppu::step from the start of a run of BufRuns; the run over
\* the visible lines is taken while the colour at $3F00 is 0
buf_bulk ==
    /\ last.count < MaxBuf
    /\ \E b \in BufRuns :
          /\ nes.ppu.scan = [dot |-> b.dot, line |-> b.line]
          /\ b.line > 239 \/ read_ppu(nes, 16128) = 0
          /\ \E n \in {ppu_run(nes, b.k)} :
                /\ n.buffer_index = nes.buffer_index
                /\ n.ppu.frames = nes.ppu.frames
                /\ nes' = n
                /\ last' = Did("ppu_bulk", shadow.swaps)
    /\ UNCHANGED <<pc, before, shadow>>

\* the program stores a colour at $3F00
palette_write ==
    /\ last.count < MaxBuf
    /\ shadow.palette < MaxPalette
    /\ nes.ppu.scan.dot = PaletteDot
    /\ \E c \in BufColours :
          /\ nes' = write_ppu(nes, 16128, c)
          /\ last' = Did("palette_write", c)
    /\ shadow' = [shadow EXCEPT !.palette = @ + 1]
    /\ UNCHANGED <<pc, before>>

BufNext ==
    \/ buf_step
    \/ buf_bulk
    \/ palette_write

SpecBuf == BufInit /\ [][BufNext]_vars

\* C25: PPU steps that do not swap leave the buffer current_buffer() returns
\* as it was; a step swaps the buffers only on reaching the end of line 260;
\* and when the frame counter changes the buffers were swapped exactly once
\* since its last change.
C25_DoubleBuffering ==
    /\ (last.op \in {"ppu_step", "ppu_bulk"}
        /\ nes.buffer_index = last.pre.buffer_index) =>
           current_buffer(nes) = current_buffer(last.pre)
    /\ (last.op = "ppu_step" /\ nes.buffer_index # last.pre.buffer_index) =>
           last.pre.ppu.scan = [dot |-> 339, line |-> 260]
    /\ (last.op = "ppu_step" /\ nes.ppu.frames # last.pre.ppu.frames) =>
           last.ret = 1

(***************************************************************************)
(* SpecMapper: CPU reads of $8000..$FFFF through the bus with a 16 KiB or  *)
(* a 32 KiB mapper-0 cartridge attached.  shadow.panicked records that a   *)
(* read indexed past the PRG image; nothing runs after it.                 *)
(***************************************************************************)
MaxMapperReads == 3

\* the first and last bytes of each 256-byte and 16 KiB block that matter
MapperOffsets == {0, 1, 2, 255, 256, 257, 4660, 8192, 16382, 16383}

MapperAddrs == {32768 + k : k \in MapperOffsets} \cup {49152 + k : k \in MapperOffsets}

\* a PRG image in which the bytes at i and at i + $4000 differ
PrgImage(len) ==
    [i \in {b + k : b \in {0, 16384}, k \in MapperOffsets} \cap (0 .. len - 1) |->
        1 + ((i + 3 * (i \div 256)) % 251)]

MapperCartridges ==
    {Mapper0_new(PrgImage(16384), 255, 16384, "Horizontal"),
     Mapper0_new(PrgImage(32768), 255, 32768, "Vertical")}

MapperInit ==
    /\ \E rom \in MapperCartridges :
          nes = Emulator_load_rom(Nes_new(1, 7458), rom)
    /\ pc = "idle"
    /\ before = 0
    /\ last = NoOp
    /\ shadow = [panicked |-> FALSE]

\* Bus::read(addr) for an address of the PRG range
mapper_read ==
    /\ last.count < MaxMapperReads
    /\ ~shadow.panicked
    /\ \E a \in MapperAddrs :
          /\ nes' = Bus_read(nes, a).n
          /\ shadow' = [panicked |-> Mapper_read_panics(nes.mapper, a)]
          /\ last' = Did("mapper_read", [addr |-> a, v |-> Bus_read(nes, a).v])
    /\ UNCHANGED <<pc, before>>

MapperNext == mapper_read

SpecMapper == MapperInit /\ [][MapperNext]_vars

\* C26: a read of addr in $8000..$FFFF returns prg[(addr - $8000) % $4000]
\* with a 16 KiB PRG image and prg[addr - $8000] with a 32 KiB one, and never
\* indexes outside the image.
C26_NromPrgMapping ==
    last.op = "mapper_read" =>
        /\ ~shadow.panicked
        /\ last.ret.v =
               IF nes.mapper.len = 16384
               THEN prg_rom(nes.mapper, (last.ret.addr - 32768) % 16384)
               ELSE prg_rom(nes.mapper, last.ret.addr - 32768)

(***************************************************************************)
(* Rom::load_file, Rom::from_data and the iNES header (rom.rs,             *)
(* rom/inesfile.rs).  A file is [opens, len, bytes, fill]: whether it can  *)
(* be opened, its length, and its bytes (fill wherever bytes gives none).  *)
(***************************************************************************)
file_byte(f, i) == IF i \in DOMAIN f.bytes THEN f.bytes[i] ELSE f.fill

\* #[br(magic = b"NES\x1A")]
ines_magic(f) ==
    /\ f.len >= 4
    /\ <<file_byte(f, 0), file_byte(f, 1), file_byte(f, 2), file_byte(f, 3)>>
           = <<78, 69, 83, 26>>

\* count = unit_size as u16 * 0x4000u16 (and * 0x2000u16), in u16
prg_rom_len(f) == (file_byte(f, 4) * 16384) % 65536

chr_rom_len(f) == (file_byte(f, 5) * 8192) % 65536

\* INESFile::read succeeds: magic, the seven header bytes, then the PRG and
\* CHR bytes from offset 16 when there are any
ines_read_ok(f) ==
    /\ ines_magic(f)
    /\ f.len >= 11
    /\ prg_rom_len(f) + chr_rom_len(f) > 0 =>
           f.len >= 16 + prg_rom_len(f) + chr_rom_len(f)

\* (flag7.bits() & 0b11110000) + (flag6.bits() >> 4)
ines_mapper(f) == BitAnd(file_byte(f, 7), 240) + (file_byte(f, 6) \div 16)

ines_prg_rom(f) ==
    [i \in {j - 16 : j \in {k \in DOMAIN f.bytes : k >= 16 /\ k < 16 + prg_rom_len(f)}}
        |-> f.bytes[i + 16]]

ines_mirroring(f) == IF file_byte(f, 6) % 2 = 1 THEN "Vertical" ELSE "Horizontal"

\* Rom::from_data: the mapper, or the error
Rom_from_data(f) ==
    IF ~ines_read_ok(f) THEN [err |-> "binread", rom |-> MapperDefault]
    ELSE IF ines_mapper(f) # 0
        THEN [err |-> "NotSupportedMapper", rom |-> MapperDefault]
    ELSE [err |-> "none",
          rom |-> Mapper0_new(ines_prg_rom(f), f.fill, prg_rom_len(f), ines_mirroring(f))]

Rom_load_file(f) ==
    IF ~f.opens THEN [err |-> "open", rom |-> MapperDefault] ELSE Rom_from_data(f)

\* a load that resets the machine before looking at the result
Emulator_load_rom_file_reset(n, r) ==
    [n |-> clear(power_on(IF r.err = "none" THEN set_rom(n, r.rom) ELSE n)),
     err |-> r.err]

\* Emulator::load_rom(path): Rom::load_file(path)?, then set_rom, power_on, clear
Emulator_load_rom_file(n, r) ==
    IF r.err # "none" THEN [n |-> n, err |-> r.err]
    ELSE [n |-> clear(power_on(set_rom(n, r.rom))), err |-> "none"]

(***************************************************************************)
(* SpecLoad: Emulator::load_rom on files that load and files that do not,  *)
(* with Nes::step run in between, so that a failing load meets a machine   *)
(* that has a cartridge attached and has run.                              *)
(***************************************************************************)
MaxLoad == 4

\* the iNES header: magic, PRG units, CHR units, flag 6, flag 7
Header(prg, chr, f6, f7) ==
    (0 :> 78 @@ 1 :> 69 @@ 2 :> 83 @@ 3 :> 26 @@ 4 :> prg @@ 5 :> chr @@ 6 :> f6
     @@ 7 :> f7 @@ 8 :> 0 @@ 9 :> 0 @@ 10 :> 0)

\* the reset vector $8000 at PRG offsets $3FFC and $3FFD
Vectors == (16 + 16380 :> 0 @@ 16 + 16381 :> 128)

File(opens, len, header) ==
    [opens |-> opens, len |-> len, bytes |-> header @@ Vectors, fill |-> OP_NOP]

WellFormed == {File(TRUE, 16 + 16384 + 8192, Header(1, 1, f6, 0)) : f6 \in {0, 1}}

IllFormed ==
    {File(FALSE, 16 + 16384 + 8192, Header(1, 1, 0, 0)),
     File(TRUE, 16 + 16384 + 8192, [Header(1, 1, 0, 0) EXCEPT ![3] = 0]),
     File(TRUE, 3, Header(1, 1, 0, 0)),
     File(TRUE, 16 + 16384, Header(1, 1, 0, 0)),
     File(TRUE, 16 + 16384 + 8192, Header(1, 1, 16, 0)),
     File(TRUE, 16 + 16384 + 8192, Header(1, 1, 1, 64))}

LoadInit ==
    /\ nes = Nes_new(1, 7458)
    /\ pc = "idle"
    /\ before = 0
    /\ last = NoOp
    /\ shadow = [file |-> <<>>]

\* Emulator::load_rom
load_rom_file ==
    /\ last.count < MaxLoad
    /\ \E f \in WellFormed \cup IllFormed :
          /\ \E r \in {Emulator_load_rom_file(nes, Rom_load_file(f))} :
                /\ nes' = r.n
                /\ last' = Did("load_rom_file", r.err)
          /\ shadow' = [file |-> f]
    /\ UNCHANGED <<pc, before>>

\* Nes::step with a cartridge attached
load_step ==
    /\ last.count < MaxLoad
    /\ nes.mapper.kind = "nrom"
    /\ Steppable(nes)
    /\ nes' = Nes_step(nes)
    /\ last' = Did("step", 0)
    /\ UNCHANGED <<pc, before, shadow>>

LoadNext ==
    \/ load_rom_file
    \/ load_step

SpecLoad == LoadInit /\ [][LoadNext]_vars

\* C27: load_rom of a well-formed mapper-0 image succeeds and attaches its
\* mapper; a load that fails (file not opened, bad magic, truncated data,
\* mapper number other than 0, the last with the unsupported-mapper error)
\* returns the error and leaves the whole machine as it was before the call.
C27_LoadRomFailure ==
    last.op = "load_rom_file" =>
        /\ shadow.file \in WellFormed =>
               /\ last.ret = "none"
               /\ nes.mapper.kind = "nrom" /\ nes.mapper.len = 16384
               /\ nes.mapper.mirroring = ines_mirroring(shadow.file)
        /\ shadow.file \in IllFormed =>
               /\ last.ret # "none"
               /\ nes = last.pre
        /\ (/\ shadow.file.opens /\ ines_read_ok(shadow.file)
            /\ ines_mapper(shadow.file) # 0) =>
               last.ret = "NotSupportedMapper"

\* a load of a mapper-1 image failed on a machine that had a cartridge
\* attached and had run a step
C27_Witness ==
    /\ last.op = "load_rom_file"
    /\ last.ret = "NotSupportedMapper"
    /\ ines_mapper(shadow.file) = 1
    /\ last.pre.mapper.kind = "nrom"
    /\ last.pre.cpu.cycles > 0
    /\ last.pre.interrupt # insert(NO_INTERRUPT, RESET)
    /\ nes = last.pre

(***************************************************************************)
(* SpecStatus: the status byte on the stack.  A program in work RAM loads  *)
(* a byte, pulls it into P with PLP and runs PHP or BRK; NMI and IRQ are   *)
(* serviced between the instructions, from power-on P and from pulled P.   *)
(***************************************************************************)
MaxStatus == 5

PulledValues == {0, 4, 16, 36, 48, 207, 255}

\* LDA #v; PHA; PLP; op, or op alone, at address 0
StatusPrograms ==
    {(0 :> OP_LDA_IMM @@ 1 :> v @@ 2 :> OP_PHA @@ 3 :> OP_PLP @@ 4 :> op) :
        v \in PulledValues \ {0}, op \in {OP_PHP, OP_BRK, OP_NOP}}
    \cup {(0 :> OP_LDA_IMM @@ 2 :> OP_PHA @@ 3 :> OP_PLP @@ 4 :> op) :
        op \in {OP_PHP, OP_NOP}}
    \cup {(0 :> OP_LDA_IMM @@ 2 :> OP_PHA @@ 3 :> OP_PLP) , (0 :> OP_PHP), Empty}

StatusInit ==
    /\ \E prog \in StatusPrograms :
          nes = [power_on(Nes_new(1, 7458)) EXCEPT !.wram = prog]
    /\ pc = "idle"
    /\ before = 0
    /\ last = NoOp
    /\ shadow = <<>>

\* cpu::step; ret is the opcode it ran
status_step ==
    /\ last.count < MaxStatus
    /\ opcode_at_pc(nes) \in Opcodes
    /\ nes' = cpu_step(nes).n
    /\ last' = Did("step", opcode_at_pc(nes))
    /\ UNCHANGED <<pc, before, shadow>>

\* an NMI or IRQ is latched and cpu::handle_interrupt services it
status_interrupt ==
    /\ last.count < MaxStatus
    /\ \E i \in {NMI, IRQ} :
          /\ nes' = handle_interrupt([nes EXCEPT !.interrupt = insert(@, i)]).n
          /\ last' = Did("interrupt", i)
    /\ UNCHANGED <<pc, before, shadow>>

StatusNext ==
    \/ status_step
    \/ status_interrupt

SpecStatus == StatusInit /\ [][StatusNext]_vars

\* the byte at the top of the stack
pushed_status == Load(nes.wram, 256 + ByteAdd(nes.cpu.s, 1))

\* C28: the status byte PHP and BRK push has bits 4 and 5 set; the status
\* byte pushed when an NMI or IRQ is serviced has bit 5 set and bit 4 clear.
C28_PushedStatus ==
    /\ (last.op = "step" /\ last.ret \in {OP_PHP, OP_BRK}) =>
           contains(pushed_status, Status_B + Status_R)
    /\ (last.op = "interrupt" /\ nes.cpu.s # last.pre.cpu.s) =>
           /\ contains(pushed_status, Status_R)
           /\ ~contains(pushed_status, Status_B)

(***************************************************************************)
(* SpecBranch: cpu::step on the eight branch instructions, from work RAM   *)
(* and from PRG ROM, over the values of P that decide each of them and     *)
(* the offsets and PCs at which the target stays on the page of the next   *)
(* instruction, leaves it, and wraps around the address space.             *)
(***************************************************************************)
MaxBranch == 1

BranchPcs == {0, 125, 126, 253, 254, 2046, 32768, 49278, 65533, 65534}

BranchOffsets == {0, 1, 2, 3, 126, 127, 128, 129, 130, 253, 254, 255}

BranchStatus == {0, Status_C, Status_Z, Status_V, Status_N, 195, 255}

\* the two bytes of the instruction, in work RAM or in a 16 KiB PRG image
BranchMachine(at, opcode, offset) ==
    IF at < 8192
    THEN [Nes_new(1, 7458) EXCEPT
            !.wram = Store(Store(Empty, at, opcode), at + 1, offset)]
    ELSE [Nes_new(1, 7458) EXCEPT
            !.mapper = Mapper0_new((at % 16384 :> opcode) @@ ((at + 1) % 16384 :> offset),
                                   OP_NOP, 16384, "Horizontal")]

BranchInit ==
    /\ \E at \in BranchPcs, opcode \in BranchOpcodes, offset \in BranchOffsets,
          p \in BranchStatus :
          nes = [BranchMachine(at, opcode, offset) EXCEPT !.cpu.pc = at, !.cpu.p = p]
    /\ pc = "idle"
    /\ before = 0
    /\ last = NoOp
    /\ shadow = <<>>

\* cpu::step on a branch instruction; ret is the number of cycles it returns
branch_step ==
    /\ last.count < MaxBranch
    /\ opcode_at_pc(nes) \in BranchOpcodes
    /\ \E r \in {cpu_step(nes)} :
          /\ nes' = r.n
          /\ last' = Did("branch", r.cycles)
    /\ UNCHANGED <<pc, before, shadow>>

BranchNext == branch_step

SpecBranch == BranchInit /\ [][BranchNext]_vars

\* the address of the next instruction, the offset byte, and the target
branch_next == (last.pre.cpu.pc + 2) % 65536

branch_offset == read_bus(last.pre, (last.pre.cpu.pc + 1) % 65536).v

branch_target ==
    (branch_next + (IF branch_offset >= 128 THEN branch_offset - 256 ELSE branch_offset)
        + 65536) % 65536

was_taken == branch_taken(last.pre.cpu.p, opcode_at_pc(last.pre))

\* C29: a branch not taken costs 2 cycles and goes to the next instruction;
\* a taken branch costs 3 cycles when its target is on the page of the next
\* instruction and 4 when it is on another page, and PC becomes the next
\* instruction address plus the sign-extended offset modulo 2^16.
C29_BranchCycles ==
    last.op = "branch" =>
        /\ ~was_taken => (last.ret = 2 /\ nes.cpu.pc = branch_next)
        /\ was_taken => nes.cpu.pc = branch_target
        /\ (was_taken /\ branch_target \div 256 = branch_next \div 256) => last.ret = 3
        /\ (was_taken /\ branch_target \div 256 # branch_next \div 256) => last.ret = 4
        /\ nes.cpu.cycles = last.pre.cpu.cycles + last.ret

\* a taken backward branch from page 0 wrapped to page $FF and cost 4 cycles
C29_Witness ==
    /\ last.op = "branch"
    /\ was_taken
    /\ branch_offset >= 128
    /\ branch_next < 128
    /\ nes.cpu.pc >= 65280
    /\ last.ret = 4

(***************************************************************************)
(* SpecJmp: cpu::step on JMP (p), the instruction in work RAM at $0200 or  *)
(* $0500, the pointer p in work RAM or in PRG ROM, with the byte $56 at    *)
(* p + 1 and another byte at the start of the page of p.                   *)
(***************************************************************************)
MaxJmp == 1

JmpAts == {512, 1280}

JmpPointers == {16, 254, 255, 1023, 2047, 32768, 33023, 49407, 65534, 65535}

JmpLows == {0, 52, 255}

JmpHighs == {0, 18, 128}

\* a byte placed in work RAM or in the PRG image
poke(n, addr, v) ==
    IF addr < 8192 THEN [n EXCEPT !.wram = Store(@, addr, v)]
    ELSE [n EXCEPT !.mapper.prg = (addr % 16384 :> v) @@ @]

\* the address the high byte is read from
page_wrapped(p) == (p - (p % 256)) + ((p + 1) % 256)

JmpProgram(p, at) ==
    poke(poke(poke([Nes_new(1, 7458) EXCEPT
                       !.mapper = Mapper0_new(Empty, OP_NOP, 16384, "Horizontal")],
                   at, OP_JMP_IND),
              at + 1, p % 256),
         at + 2, p \div 256)

\* p + 1 holds $56 unless the high byte is read from there
JmpMachine(p, at, lo, hi) ==
    poke(poke(poke(JmpProgram(p, at), (p + 1) % 65536, 86), page_wrapped(p), hi),
         p, lo)

JmpInit ==
    /\ \E p \in JmpPointers, at \in JmpAts, lo \in JmpLows, hi \in JmpHighs :
          /\ nes = [JmpMachine(p, at, lo, hi) EXCEPT !.cpu.pc = at]
          /\ shadow = [p |-> p]
    /\ pc = "idle"
    /\ before = 0
    /\ last = NoOp

\* cpu::step on JMP (p); ret is the number of cycles it returns
jmp_step ==
    /\ last.count < MaxJmp
    /\ opcode_at_pc(nes) = OP_JMP_IND
    /\ \E r \in {cpu_step(nes)} :
          /\ nes' = r.n
          /\ last' = Did("jmp", r.cycles)
    /\ UNCHANGED <<pc, before, shadow>>

JmpNext == jmp_step

SpecJmp == JmpInit /\ [][JmpNext]_vars

\* C30: after JMP (p) the low byte of PC is the byte at p and the high byte
\* is the byte at (p & $FF00) | ((p + 1) & $00FF), which for p = $xxFF is
\* the byte at $xx00; the instruction takes 5 cycles.
C30_JmpIndirect ==
    last.op = "jmp" =>
        /\ nes.cpu.pc % 256 = read_bus(last.pre, shadow.p).v
        /\ nes.cpu.pc \div 256 = read_bus(last.pre, page_wrapped(shadow.p)).v
        /\ shadow.p % 256 = 255 =>
               nes.cpu.pc \div 256 = read_bus(last.pre, shadow.p - 255).v
        /\ last.ret = 5
        /\ nes.cpu.cycles = last.pre.cpu.cycles + 5

\* JMP ($xxFF) ran with different bytes at $xxFF + 1 and at $xx00, and the
\* high byte of PC is the one at $xx00
C30_Witness ==
    /\ last.op = "jmp"
    /\ shadow.p % 256 = 255
    /\ read_bus(last.pre, (shadow.p + 1) % 65536).v = 86
    /\ read_bus(last.pre, shadow.p - 255).v = 128
    /\ nes.cpu.pc \div 256 = 128

(***************************************************************************)
(* SpecAdc: ADC #M and SBC #M run by cpu::step for every accumulator,      *)
(* every operand, both values of the carry and both values of D.           *)
(***************************************************************************)
Status_D == 8

\* P with C and D chosen, I and R as after reset
AdcStatus == {36 + c + d : c \in {0, Status_C}, d \in {0, Status_D}}

AdcInit ==
    /\ \E a \in 0..255, p \in AdcStatus :
          nes = [Nes_new(1, 7458) EXCEPT !.cpu.a = a, !.cpu.p = p]
    /\ pc = "idle"
    /\ before = 0
    /\ last = NoOp
    /\ shadow = [m |-> 0]

\* cpu::step on ADC #m
adc_step ==
    /\ last.op = "none"
    /\ \E m \in 0..255 :
          /\ nes' = cpu_step([nes EXCEPT
                 !.wram = Store(Store(@, nes.cpu.pc, OP_ADC_IMM), nes.cpu.pc + 1, m)]).n
          /\ shadow' = [m |-> m]
    /\ last' = Did("adc", 0)
    /\ UNCHANGED <<pc, before>>

\* cpu::step on SBC #m
sbc_step ==
    /\ last.op = "none"
    /\ \E m \in 0..255 :
          /\ nes' = cpu_step([nes EXCEPT
                 !.wram = Store(Store(@, nes.cpu.pc, OP_SBC_IMM), nes.cpu.pc + 1, m)]).n
          /\ shadow' = [m |-> m]
    /\ last' = Did("sbc", 0)
    /\ UNCHANGED <<pc, before>>

AdcNext ==
    \/ adc_step
    \/ sbc_step

SpecAdc == AdcInit /\ [][AdcNext]_vars

\* the operand as added, the carry in, and the sum before truncation
adc_operand == IF last.op = "sbc" THEN 255 - shadow.m ELSE shadow.m

adc_sum == last.pre.cpu.a + adc_operand + (last.pre.cpu.p % 2)

\* bit 7 of x ^ y
differ_7(x, y) == (x \div 128) % 2 # (y \div 128) % 2

\* C31: ADC leaves A = R = (A + M + c) mod 256, C = (A + M + c > 255),
\* V = ((A ^ R) & (M ^ R) & $80) # 0, Z and N from R; SBC is the same with
\* M xor $FF for M; D is left alone and has no effect on the result.
C31_AdcSbc ==
    last.op \in {"adc", "sbc"} =>
        /\ nes.cpu.a = adc_sum % 256
        /\ contains(nes.cpu.p, Status_C) = (adc_sum > 255)
        /\ contains(nes.cpu.p, Status_V) =
               (differ_7(last.pre.cpu.a, nes.cpu.a) /\ differ_7(adc_operand, nes.cpu.a))
        /\ contains(nes.cpu.p, Status_Z) = (nes.cpu.a = 0)
        /\ contains(nes.cpu.p, Status_N) = (nes.cpu.a >= 128)
        /\ contains(nes.cpu.p, Status_D) = contains(last.pre.cpu.p, Status_D)

\* SBC #$01 from $80 with the carry set and D set: $7F, overflow, no borrow
C31_Witness ==
    /\ last.op = "sbc"
    /\ last.pre.cpu.a = 128 /\ shadow.m = 1
    /\ contains(last.pre.cpu.p, Status_C + Status_D)
    /\ nes.cpu.a = 127
    /\ contains(nes.cpu.p, Status_V + Status_C)

\* C34: a ppu::step at line 241 dot 1 sets VBLANK; a ppu::step at dot 1 of
\* the pre-render line 261 leaves VBLANK, sprite-zero-hit and
\* sprite-overflow clear; with no read of $2002 none of the three is set at
\* line 0 of a later frame.
C34_StatusCleared ==
    /\ (last.op = "ppu_step" /\ last.pre.ppu.scan = [dot |-> 1, line |-> 241]) =>
           contains(nes.ppu.status, Status_VBLANK)
    /\ (last.op = "ppu_step" /\ last.pre.ppu.scan = [dot |-> 1, line |-> 261]) =>
           BitAnd(nes.ppu.status, 224) = 0
    /\ (nes.ppu.scan.line = 0 /\ nes.ppu.frames > 0) =>
           BitAnd(nes.ppu.status, 224) = 0

(***************************************************************************)
(* SpecData: the data port $2007 with the address set through $2006 and    *)
(* the increment chosen through $2000.  A $2007 write that panics ends the *)
(* run: shadow.panicked is set and nothing runs after it.  The memory      *)
(* starts with $33 written at $2000 and $25 at $3F00.                      *)
(***************************************************************************)
MaxData == 5

\* the bytes written to $2006: $0000, $2000, $3EFF, $3F00, $3FFF and others
DataAddrBytes == {0, 32, 62, 63, 255}

DataValues == {17, 34}

DataInit ==
    /\ nes = write_ppu(write_ppu(Emulator_load_rom(Nes_new(1, 7458),
                                                   CHOOSE rom \in IntrCartridges : TRUE),
                                 8192, 51),
                       16128, 37)
    /\ pc = "idle"
    /\ before = 0
    /\ last = NoOp
    /\ shadow = [panicked |-> FALSE]

\* a write to $2006 or to $2000 (the increment bit clear or set)
data_setup ==
    /\ last.count < MaxData
    /\ ~shadow.panicked
    /\ \E w \in {<<8198, d>> : d \in DataAddrBytes} \cup {<<8192, 0>>, <<8192, 4>>} :
          /\ nes' = write_ppu_register(nes, w[1], w[2])
          /\ last' = Did("data_setup", w[1])
    /\ UNCHANGED <<pc, before, shadow>>

\* a read of $2007
data_read ==
    /\ last.count < MaxData
    /\ ~shadow.panicked
    /\ \E r \in {read_ppu_register(nes, 8199)} :
          /\ nes' = r.n
          /\ last' = Did("data_read", r.v)
    /\ UNCHANGED <<pc, before, shadow>>

\* a write of $2007
data_write ==
    /\ last.count < MaxData
    /\ ~shadow.panicked
    /\ \E d \in DataValues :
          /\ nes' = IF write_ppu_panics(nes.ppu.v) THEN nes
                    ELSE write_ppu_register(nes, 8199, d)
          /\ last' = Did("data_write", d)
    /\ shadow' = [panicked |-> write_ppu_panics(nes.ppu.v)]
    /\ UNCHANGED <<pc, before>>

DataNext ==
    \/ data_setup
    \/ data_read
    \/ data_write

SpecData == DataInit /\ [][DataNext]_vars

\* v after an access of $2007
v_stepped ==
    nes.ppu.v = (last.pre.ppu.v + (IF (last.pre.ppu.ctrl \div 4) % 2 = 1 THEN 32 ELSE 1))
                   % 65536

\* the byte the PPU memory holds at v before the access
memory_at_v ==
    IF last.pre.ppu.v >= 16128
    THEN Load(last.pre.pallete_ram_idx, to_pallete_addr(last.pre.ppu.v))
    ELSE read_ppu(last.pre, last.pre.ppu.v)

\* C33: a $2007 read with v <= $3EFF returns the buffered byte and refills
\* the buffer from the memory at v; with v in $3F00..$3FFF it returns the
\* palette byte at v; after every $2007 read or write v has increased by 1
\* with VRAM_ADDR_INCR clear and by 32 with it set.
C33_DataPort ==
    /\ last.op = "data_read" =>
           /\ last.pre.ppu.v <= 16127 =>
                  (last.ret = last.pre.ppu.data /\ nes.ppu.data = memory_at_v)
           /\ (last.pre.ppu.v >= 16128 /\ last.pre.ppu.v <= 16383) =>
                  last.ret = memory_at_v
           /\ v_stepped
    /\ last.op = "data_write" => (~shadow.panicked /\ v_stepped)

(***************************************************************************)
(* SpecScroll: ppu::step at dot 256, over the fine Y, the rows and the     *)
(* nametable bits of v, on visible lines, the pre-render line and a line   *)
(* of the vertical blank, with rendering on and off.                       *)
(***************************************************************************)
ScrollLines == {0, 239, 240, 261}

\* v from fine Y, nametable select, coarse Y and coarse X
ScrollAddrs ==
    {fy * 4096 + nt * 1024 + cy * 32 + cx :
        fy \in {0, 3, 6, 7}, nt \in 0..3, cy \in {0, 28, 29, 30, 31}, cx \in {0, 7, 31}}

ScrollInit ==
    /\ \E v \in ScrollAddrs, line \in ScrollLines, m \in {0, 8, 24} :
          nes = [Emulator_load_rom(Nes_new(1, 7458), CHOOSE rom \in IntrCartridges : TRUE)
                    EXCEPT !.ppu.v = v, !.ppu.mask = m,
                           !.ppu.scan = [dot |-> 256, line |-> line]]
    /\ pc = "idle"
    /\ before = 0
    /\ last = NoOp
    /\ shadow = <<>>

\* ppu::step at dot 256
scroll_step ==
    /\ last.op = "none"
    /\ nes' = ppu_step(nes)
    /\ last' = Did("scroll_step", 0)
    /\ UNCHANGED <<pc, before, shadow>>

ScrollNext == scroll_step

SpecScroll == ScrollInit /\ [][ScrollNext]_vars

\* fine Y, coarse Y and the rest of a v
fine_y_of(v) == (v \div 4096) % 8

coarse_y_of(v) == (v \div 32) % 32

\* v without fine Y, coarse Y and bit 11
other_bits(v) == v - fine_y_of(v) * 4096 - coarse_y_of(v) * 32 - ((v \div 2048) % 2) * 2048

\* C35: at dot 256 of a visible or pre-render line with rendering enabled,
\* fine Y < 7 increases by 1 and nothing else changes; from fine Y = 7,
\* fine Y becomes 0 and coarse Y becomes 0 from 29 with bit 11 toggled,
\* 0 from 31 without toggle, and one more otherwise; coarse X, bit 10 and
\* bit 15 keep their values.
C35_IncrementY ==
    (/\ last.op = "scroll_step"
     /\ rendering_line(last.pre.ppu.scan.line)
     /\ contains(last.pre.ppu.mask, Mask_RENDER_ENABLED)) =>
        /\ other_bits(nes.ppu.v) = other_bits(last.pre.ppu.v)
        /\ fine_y_of(nes.ppu.v) = (fine_y_of(last.pre.ppu.v) + 1) % 8
        /\ fine_y_of(last.pre.ppu.v) < 7 =>
               /\ coarse_y_of(nes.ppu.v) = coarse_y_of(last.pre.ppu.v)
               /\ (nes.ppu.v \div 2048) % 2 = (last.pre.ppu.v \div 2048) % 2
        /\ fine_y_of(last.pre.ppu.v) = 7 =>
               /\ coarse_y_of(nes.ppu.v) =
                      (IF coarse_y_of(last.pre.ppu.v) \in {29, 31} THEN 0
                       ELSE coarse_y_of(last.pre.ppu.v) + 1)
               /\ ((nes.ppu.v \div 2048) % 2 # (last.pre.ppu.v \div 2048) % 2)
                      = (coarse_y_of(last.pre.ppu.v) = 29)

(***************************************************************************)
(* Sprite evaluation (Oam::clear, Oam::eval_sprites).  The walk over the   *)
(* 64 sprites carries [secondary, pos, n, zero, panicked]: the secondary   *)
(* OAM, the position of the iterator over its 32 bytes, the count of       *)
(* sprites taken, sprite_zero_on_line, and whether an unwrap found None.   *)
(***************************************************************************)
SPRITE_COUNT == 64

SECONDARY_SIZE == 32

Controller_SPRITE_SIZE == 32

sprite_size(p) == IF contains(p.ctrl, Controller_SPRITE_SIZE) THEN 16 ELSE 8

\* the four bytes of sprite i go to pos..pos+3; iter.next().unwrap() panics
\* when fewer than three bytes follow pos
take_sprite(st, primary, i) ==
    IF st.pos + 3 >= SECONDARY_SIZE
    THEN [st EXCEPT !.zero = (@ \/ st.n = 0), !.panicked = TRUE]
    ELSE [st EXCEPT
            !.zero = (@ \/ st.n = 0),
            !.secondary = Store(Store(Store(Store(@, st.pos, Load(primary, 4 * i)),
                                            st.pos + 1, Load(primary, 4 * i + 1)),
                                      st.pos + 2, Load(primary, 4 * i + 2)),
                                st.pos + 3, Load(primary, 4 * i + 3)),
            !.pos = @ + 4,
            !.n = @ + 1]

\* the body of the loop for sprite i: iter.next() takes one byte of the
\* secondary OAM for every sprite looked at; row < sprite_size is the test
eval_sprite(st, primary, i, line, size) ==
    IF st.panicked \/ st.pos >= SECONDARY_SIZE THEN st
    ELSE IF line - Load(primary, 4 * i) < size
        THEN take_sprite(st, primary, i)
    ELSE [st EXCEPT !.pos = @ + 1]

\* for i in first..first + k: k sprites, walked as k \div 2 and the rest
RECURSIVE eval_from(_, _, _, _, _, _)
eval_from(st, primary, first, k, line, size) ==
    IF k = 0 THEN st
    ELSE IF k = 1 THEN eval_sprite(st, primary, first, line, size)
    ELSE CHOOSE r \in {eval_from(m, primary, first + k \div 2, k - k \div 2, line, size) :
                          m \in {eval_from(st, primary, first, k \div 2, line, size)}} : TRUE

\* dot 0 of a rendering line: oam.clear(), sprite_zero_on_line = false,
\* oam.eval_sprites(&scan, &mut ppu)
eval_sprites(n) ==
    eval_from([secondary |-> Empty, pos |-> 0, n |-> 0, zero |-> FALSE,
               panicked |-> FALSE],
              n.oam.primary, 0, SPRITE_COUNT, n.ppu.scan.line, sprite_size(n.ppu))

evaluated(n, st) ==
    [n EXCEPT !.oam.secondary = st.secondary, !.ppu.sprite_zero_on_line = st.zero]

(***************************************************************************)
(* SpecSprite: sprite evaluation over primary OAM contents in which the    *)
(* first three sprites and the other sixty-one are above, on and below     *)
(* the line, for both sprite sizes.  Sprite i has tile i + 1 and x = i.    *)
(***************************************************************************)
SpriteYs == {0, 10, 200}

SpriteFills == {0, 100, 255}

SpriteLines == {5, 12, 100, 205}

\* byte k of the primary OAM
SpriteByte(ys, fill, k) ==
    IF k % 4 = 0 THEN (IF k \div 4 < 3 THEN ys[(k \div 4) + 1] ELSE fill)
    ELSE IF k % 4 = 1 THEN (k \div 4) + 1
    ELSE IF k % 4 = 2 THEN 0
    ELSE k \div 4

Primary(ys, fill) ==
    [k \in {j \in 0..255 : SpriteByte(ys, fill, j) # 0} |-> SpriteByte(ys, fill, k)]

SpriteInit ==
    /\ \E ys \in [1..3 -> SpriteYs], fill \in SpriteFills, line \in SpriteLines,
          c \in {0, Controller_SPRITE_SIZE} :
          nes = [Nes_new(1, 7458) EXCEPT
                    !.oam.primary = Primary(ys, fill),
                    !.ppu.ctrl = c,
                    !.ppu.scan = [dot |-> 0, line |-> line]]
    /\ pc = "idle"
    /\ before = 0
    /\ last = NoOp
    /\ shadow = [panicked |-> FALSE]

\* the sprite section of ppu::step at dot 0
sprite_eval ==
    /\ last.op = "none"
    /\ \E st \in {eval_sprites(nes)} :
          /\ nes' = evaluated(nes, st)
          /\ shadow' = [panicked |-> st.panicked]
    /\ last' = Did("sprite_eval", 0)
    /\ UNCHANGED <<pc, before>>

SpriteNext == sprite_eval

SpecSprite == SpriteInit /\ [][SpriteNext]_vars

\* the sprites whose rows meet the line, and how many of them precede i
on_line ==
    {i \in 0..63 :
        /\ last.pre.ppu.scan.line - Load(last.pre.oam.primary, 4 * i) >= 0
        /\ last.pre.ppu.scan.line - Load(last.pre.oam.primary, 4 * i)
               < (IF (last.pre.ppu.ctrl \div 32) % 2 = 1 THEN 16 ELSE 8)}

rank(i) == Cardinality({j \in on_line : j < i})

\* C36: after sprite evaluation the secondary OAM holds, in primary order
\* and four bytes each, the first up to eight sprites whose rows meet the
\* line (0 <= line - y < height), and sprite_zero_on_line is true exactly
\* when sprite 0 is one of them.
C36_SpriteEvaluation ==
    last.op = "sprite_eval" =>
        /\ ~shadow.panicked
        /\ \A i \in on_line : rank(i) < 8 =>
               \A j \in 0..3 :
                  Load(nes.oam.secondary, 4 * rank(i) + j)
                     = Load(last.pre.oam.primary, 4 * i + j)
        /\ nes.ppu.sprite_zero_on_line = (0 \in on_line)

(***************************************************************************)
(* SpecOam: the OAM address and data registers, written and read through   *)
(* the bus ($2003, $2004, OAM DMA) and through read_ppu_register and       *)
(* write_ppu_register with the register addresses they match on.  An       *)
(* access that panics ends the run.                                        *)
(***************************************************************************)
MaxOam == 4

OamAddrs == {0, 254, 255}

OamValues == {17, 34}

OamInit ==
    /\ nes = [Emulator_load_rom(Nes_new(1, 7458), CHOOSE rom \in IntrCartridges : TRUE)
                 EXCEPT !.wram = WramImage({2})]
    /\ pc = "idle"
    /\ before = 0
    /\ last = NoOp
    /\ shadow = [panicked |-> FALSE]

\* Bus::write to $2003, $2004 or $4014; ret is the address and the value
oam_bus_write ==
    /\ last.count < MaxOam
    /\ ~shadow.panicked
    /\ \E w \in ({8195} \X OamAddrs) \cup ({8196} \X OamValues) \cup {<<16404, 2>>} :
          /\ nes' = Bus_write(nes, w[1], w[2])
          /\ last' = Did("oam_bus_write", [addr |-> w[1], v |-> w[2]])
    /\ UNCHANGED <<pc, before, shadow>>

\* write_ppu_register(0x2003, d) and write_ppu_register(0x2004, d)
oam_write ==
    /\ last.count < MaxOam
    /\ ~shadow.panicked
    /\ \E w \in ({8195} \X OamAddrs) \cup ({8196} \X OamValues) :
          /\ nes' = IF w[1] = 8196 /\ oam_index_panics(nes) THEN nes
                    ELSE write_ppu_register(nes, w[1], w[2])
          /\ shadow' = [panicked |-> w[1] = 8196 /\ oam_index_panics(nes)]
          /\ last' = Did("oam_write", [addr |-> w[1], v |-> w[2]])
    /\ UNCHANGED <<pc, before>>

\* read_ppu_register(0x2004)
oam_read ==
    /\ last.count < MaxOam
    /\ ~shadow.panicked
    /\ nes' = IF oam_index_panics(nes) THEN nes ELSE read_ppu_register(nes, 8196).n
    /\ shadow' = [panicked |-> oam_index_panics(nes)]
    /\ last' = Did("oam_read", [addr |-> 8196, v |-> 0])
    /\ UNCHANGED <<pc, before>>

OamNext ==
    \/ oam_bus_write
    \/ oam_write
    \/ oam_read

SpecOam == OamInit /\ [][OamNext]_vars

\* C37: oam_address stays in 0..255 and no $2004 access indexes outside the
\* primary OAM; a $2004 write stores its value at oam_address and moves the
\* address on by one, from 255 to 0.
C37_OamAddress ==
    /\ nes.ppu.oam_address \in 0..255
    /\ ~shadow.panicked
    /\ (last.op \in {"oam_write", "oam_bus_write"} /\ last.ret.addr = 8196) =>
           /\ Load(nes.oam.primary, last.pre.ppu.oam_address) = last.ret.v
           /\ nes.ppu.oam_address = (last.pre.ppu.oam_address + 1) % 256

(***************************************************************************)
(* Trace::new (trace.rs): the reads it makes on the bus to print the       *)
(* instruction at PC.  Every read goes through Nes::read_bus, so the       *)
(* machine after the reads is part of what Trace::new returns here.        *)
(***************************************************************************)
\* decode(instruction): the addressing mode of the opcodes of this model;
\* every opcode outside the table decodes as an implicit NOP
addressing_mode(opcode) ==
    IF opcode \in {OP_LDA_IMM, OP_ADC_IMM, OP_SBC_IMM} THEN "Immediate"
    ELSE IF opcode = OP_STA_ABS THEN "Absolute"
    ELSE IF opcode \in BranchOpcodes THEN "Relative"
    ELSE IF opcode = OP_JMP_IND THEN "Indirect"
    ELSE "Implicit"

\* nes.read_bus(nes.cpu.pc + 1)
cpu_operand_1(n) == read_bus(n, WordAdd(n.cpu.pc, 1))

\* nes.read_bus(nes.cpu.pc + 2)
cpu_operand_2(n) == read_bus(n, WordAdd(n.cpu.pc, 2))

\* cpu_operand_1 | cpu_operand_2 << 8
cpu_operand_16(n) == word_of(cpu_operand_1(n).v, cpu_operand_2(cpu_operand_1(n).n))

\* the match of trace.rs read on the decoded address: $4004..$4007 and $4015
\* give 0xFF without a bus read, every other address is read on the bus
trace_read(w) ==
    IF (w.v >= 16388 /\ w.v <= 16391) \/ w.v = 16405 THEN [n |-> w.n, v |-> 255]
    ELSE read_bus(w.n, w.v)

\* read_on_indirect of trace.rs: two reads on the bus, the high byte from the
\* page of addr
trace_read_on_indirect(w) ==
    word_of(read_bus(w.n, w.v).v,
            read_bus(read_bus(w.n, w.v).n,
                     BitOr(BitAnd(w.v, 65280), BitAnd(WordAdd(w.v, 1), 255))))

\* to_assembly_code: the operand is formatted from cpu_operand_1 or
\* cpu_operand_16, followed for Absolute by read(addressing_mode, nes) and
\* for Indirect by decode_address(addressing_mode, nes), each of which
\* decodes the operand again
to_assembly_code(n, mode) ==
    IF mode = "Immediate" \/ mode = "Relative" THEN cpu_operand_1(n).n
    ELSE IF mode = "Absolute"
        THEN trace_read(cpu_operand_16(cpu_operand_16(n).n)).n
    ELSE IF mode = "Indirect"
        THEN trace_read_on_indirect(cpu_operand_16(cpu_operand_16(n).n)).n
    ELSE n

\* the fields operation, operand_1 and operand_2 of the Trace
trace_bytes(n) ==
    cpu_operand_2(cpu_operand_1(read_bus(n, n.cpu.pc).n).n)

\* after the fetch of the instruction byte
trace_decoded(f) == trace_bytes(to_assembly_code(f.n, addressing_mode(f.v)))

\* Trace::new: the machine after it, and operand_2 as the value
Trace_new(n) == trace_decoded(read_bus(n, n.cpu.pc))

(***************************************************************************)
(* Trace::new at an instruction boundary: one instruction at $0200 whose   *)
(* operand is a RAM, PPU, APU, controller or PRG address, a standard       *)
(* controller on each port with the strobe released, and the frame         *)
(* sequencer run 0 or 4 periods so that the frame IRQ flag is clear or     *)
(* set.                                                                    *)
(***************************************************************************)
TraceOpcodes == {OP_NOP, OP_LDA_IMM, OP_BNE, OP_STA_ABS, OP_JMP_IND}

TraceOperands ==
    {16, 8194, 8199, 16384, 16388, 16403, 16405, 16406, 16407, 32768}

TracePeriods == {0, 4}

\* the instruction bytes at $0200
TraceProgram(opcode, operand) ==
    Store(Store(Store(Empty, 512, opcode), 513, operand % 256), 514, operand \div 256)

\* both controllers strobed and released
strobed(n) ==
    Bus_write(Bus_write(Bus_write(Bus_write(n, 16406, 1), 16406, 0), 16407, 1),
              16407, 0)

\* the loaded machine with a standard controller on each port
TraceConsole(buttons) ==
    Emulator_set_controllers(
        Emulator_load_rom(Nes_new(1, 1), CHOOSE rom \in IntrCartridges : TRUE),
        Controller_update(StandardController, buttons),
        Controller_update(StandardController, buttons))

TraceInit ==
    /\ \E opcode \in TraceOpcodes, operand \in TraceOperands, periods \in TracePeriods,
          console \in {TraceConsole(buttons) : buttons \in ButtonStates} :
          \E released \in {strobed(console)} :
             nes = [apu_run(released, periods, 0).n
                       EXCEPT !.wram = TraceProgram(opcode, operand), !.cpu.pc = 512]
    /\ pc = "idle"
    /\ before = 0
    /\ last = NoOp
    /\ shadow = 0

\* Trace::new(&mut nes); ret is operand_2
trace_new ==
    /\ last.op = "none"
    /\ \E r \in {Trace_new(nes)} :
          /\ nes' = r.n
          /\ last' = Did("trace_new", r.v)
    /\ UNCHANGED <<pc, before, shadow>>

SpecTrace == TraceInit /\ [][trace_new]_vars

\* the operand address of the instruction at PC
trace_operand(n) == Load(n.wram, n.cpu.pc + 1) + 256 * Load(n.wram, n.cpu.pc + 2)

\* C39: Trace::new changes no emulated state: the CPU registers and cycle
\* counter, the PPU status, write toggle, read buffer, internal data bus and
\* v, the APU frame-IRQ flag and both controllers are as before it.
C39_TraceNoEffect ==
    last.op = "trace_new" =>
        /\ nes.cpu = last.pre.cpu
        /\ nes.ppu.status = last.pre.ppu.status
        /\ nes.ppu.write_toggle = last.pre.ppu.write_toggle
        /\ nes.ppu.data = last.pre.ppu.data
        /\ nes.ppu.internal_data_bus = last.pre.ppu.internal_data_bus
        /\ nes.ppu.v = last.pre.ppu.v
        /\ nes.apu.frame_interrupted = last.pre.apu.frame_interrupted
        /\ nes.controller_1 = last.pre.controller_1
        /\ nes.controller_2 = last.pre.controller_2

(***************************************************************************)
(* The frame sequencer under mode switches: apu::step with a frame period  *)
(* of 2 cycles, and writes of $4017 between any two steps.                 *)
(***************************************************************************)
MaxSeq == 12

\* $4017 values: 4-step and 5-step mode, frame IRQ allowed and inhibited
SeqControls == {0, 64, 128, 192}

SeqInit ==
    /\ nes = Emulator_load_rom(Nes_new(1, 2), CHOOSE rom \in IntrCartridges : TRUE)
    /\ pc = "idle"
    /\ before = 0
    /\ last = NoOp
    /\ shadow = 0

\* apu::step; ret tells whether this step clocks the frame sequencer
seq_step ==
    /\ last.count < MaxSeq
    /\ nes' = apu_step(nes).n
    /\ last' = Did("seq_step", (nes.apu.cycles + 1) % nes.apu.frame_period = 0)
    /\ UNCHANGED <<pc, before, shadow>>

\* Bus::write(0x4017, v)
seq_write ==
    /\ last.count < MaxSeq
    /\ \E v \in SeqControls :
          /\ nes' = Bus_write(nes, 16407, v)
          /\ last' = Did("seq_write", v)
    /\ UNCHANGED <<pc, before, shadow>>

SeqNext ==
    \/ seq_step
    \/ seq_write

SpecSeq == SeqInit /\ [][SeqNext]_vars

\* the steps of the mode $4017 selects
mode_steps(a) == IF nth(a.frame_counter_control, 7) = 0 THEN 0 .. 3 ELSE 0 .. 4

\* C40: whenever a frame-sequencer clock is processed, frame_sequence_step
\* is one of the steps of the selected mode: 0..3 in 4-step mode, 0..4 in
\* 5-step mode.
C40_SequenceStep ==
    (last.op = "seq_step" /\ last.ret = TRUE) =>
        /\ last.pre.apu.frame_sequence_step \in mode_steps(last.pre.apu)
        /\ nes.apu.frame_sequence_step \in mode_steps(nes.apu)

====
